---------------------- MODULE ResourceGroupProofs ----------------------
(***************************************************************************)
(* Type correctness of ResourceGroup, that the number of resources is      *)
(* exact while every size is known, and that the totals are the sums of    *)
(* the sizes, for every set of groups, resources and documents, and every  *)
(* width of uintmax_t.  First what the comparisons of VersionInternal      *)
(* guarantee of an exported document, for every version a document may     *)
(* ever have carried.                                                      *)
(***************************************************************************)
EXTENDS ResourceGroup, SequenceLemmas
--------------------------------------------------------------------------
(* Versions.                                                               *)

\* One clamp with the > of VersionInternal bounds every number of the
\* version by the ceiling, or returns the ceiling: the comparison is not an
\* order, and is the stronger for it.
LEMMA ClampBounds ==
  ASSUME NEW v \in Version, NEW ceiling \in Version
  PROVE  /\ Clamp(v, ceiling) \in Version
         /\ \A i \in 1..3 : Clamp(v, ceiling)[i] <= ceiling[i]
BY DEF Clamp, Greater, Version

\* ExportYaml never writes a version outside S_VALID_DOCUMENT_VERSIONS,
\* whatever version the document has.
THEOREM ExportedVersionIsValid ==
  ASSUME NEW requested \in ValidVersions, NEW current \in Version
  PROVE  ExportedVersion(requested, current) \in ValidVersions
<1> DEFINE inner == Clamp(requested, current)
<1>1. requested \in Version
  BY DEF ValidVersions, Version
<1>2. inner \in Version
  BY <1>1, ClampBounds
<1>3. DocumentVersion \in Version
  BY DEF DocumentVersion, Version
<1>4. CASE Greater(inner, DocumentVersion)
  BY <1>4 DEF ExportedVersion, Clamp, ValidVersions, DocumentVersion
<1>5. CASE ~Greater(inner, DocumentVersion)
  <2>1. inner[1] <= 0 /\ inner[2] <= 1 /\ inner[3] <= 0
    BY <1>2, <1>5 DEF Greater, DocumentVersion, Version
  <2>2. inner = <<0, 0, 0>> \/ inner = <<0, 1, 0>>
    BY <1>2, <2>1 DEF Version
  <2> QED
    BY <1>5, <2>2 DEF ExportedVersion, Clamp, ValidVersions
<1> QED
  BY <1>4, <1>5
--------------------------------------------------------------------------
(* Totals.                                                                 *)

LEMMA PlusType ==
  ASSUME NEW a \in Uint, NEW b \in Uint
  PROVE  Plus(a, b) \in Uint
BY SizesAssumption DEF Plus, Uint

LEMMA MinusType ==
  ASSUME NEW a \in Uint, NEW b \in Uint
  PROVE  Minus(a, b) \in Uint
BY SizesAssumption DEF Minus, Uint

LEMMA ConstantTypes ==
  /\ 0 \in Uint /\ 1 \in Uint
  /\ DocumentVersion \in Version
  /\ ValidVersions \subseteq Version
  /\ Plain \subseteq Resources
BY SizesAssumption DEF Uint, DocumentVersion, ValidVersions, Version, Plain

LEMMA ResourceType ==
  ASSUME NEW r \in Resources
  PROVE  /\ r.usize \in Uint
         /\ r.csize \in Uint \cup {Unset}
         /\ r.path \in Paths
BY ResourcesAssumption, SizesAssumption DEF Uint, Paths

\* Taking one entry out of a sequence.
LEMMA RemoveAtProperties ==
  ASSUME NEW S, NEW s \in Seq(S), NEW i \in DOMAIN s
  PROVE  /\ RemoveAt(s, i) \in Seq(S)
         /\ Len(RemoveAt(s, i)) = Len(s) - 1
         /\ \A k \in 1..Len(s) - 1 :
              RemoveAt(s, i)[k] = IF k < i THEN s[k] ELSE s[k + 1]
         /\ \A j \in DOMAIN s \ {i} :
              \E k \in DOMAIN RemoveAt(s, i) : RemoveAt(s, i)[k] = s[j]
<1> DEFINE front == SubSeq(s, 1, i - 1)
           back == SubSeq(s, i + 1, Len(s))
<1>1. /\ Len(s) \in Nat /\ DOMAIN s = 1..Len(s) /\ i \in 1..Len(s)
      /\ \A n \in 1..Len(s) : s[n] \in S
  BY LenProperties, ElementOfSeq
<1>2. /\ front \in Seq(S) /\ Len(front) = i - 1
      /\ \A n \in 1..i - 1 : front[n] = s[n]
  <2>1. \A n \in 1..i - 1 : s[n] \in S
    BY <1>1
  <2> QED
    BY <1>1, <2>1, SubSeqProperties, 1 \in Int, i - 1 \in Int
<1>3. /\ back \in Seq(S) /\ Len(back) = Len(s) - i
      /\ \A n \in 1..Len(s) - i : back[n] = s[n + i]
  <2>1. \A n \in i + 1..Len(s) : s[n] \in S
    BY <1>1
  <2>2. /\ back \in Seq(S)
        /\ Len(back) = IF i + 1 <= Len(s) THEN Len(s) - (i + 1) + 1 ELSE 0
        /\ \A n \in 1..Len(s) - (i + 1) + 1 : back[n] = s[i + 1 + n - 1]
    BY <1>1, <2>1, SubSeqProperties, i + 1 \in Int
  <2>3. Len(back) = Len(s) - i
    BY <1>1, <2>2
  <2>4. ASSUME NEW n \in 1..Len(s) - i
        PROVE  back[n] = s[n + i]
    <3>1. n \in 1..Len(s) - (i + 1) + 1 /\ i + 1 + n - 1 = n + i
      BY <1>1
    <3> QED
      BY <2>2, <3>1
  <2> QED
    BY <2>2, <2>3, <2>4
<1> HIDE DEF front, back
<1>4. RemoveAt(s, i) = front \o back
  BY DEF RemoveAt, front, back
<1>5. /\ front \o back \in Seq(S)
      /\ Len(front \o back) = Len(s) - 1
      /\ \A n \in 1..Len(s) - 1 :
           (front \o back)[n] = IF n <= i - 1 THEN front[n]
                                ELSE back[n - (i - 1)]
  <2>1. /\ front \o back \in Seq(S)
        /\ Len(front \o back) = Len(front) + Len(back)
        /\ \A n \in 1..Len(front) + Len(back) :
             (front \o back)[n] = IF n <= Len(front) THEN front[n]
                                  ELSE back[n - Len(front)]
    BY <1>2, <1>3, ConcatProperties
  <2>2. Len(front) = i - 1 /\ Len(front) + Len(back) = Len(s) - 1
    BY <1>1, <1>2, <1>3
  <2> QED
    BY <2>1, <2>2
<1>6. DOMAIN (front \o back) = 1..Len(s) - 1
  BY <1>5, LenProperties
<1>7. ASSUME NEW j \in DOMAIN s \ {i}
      PROVE  \E k \in 1..Len(s) - 1 : (front \o back)[k] = s[j]
  <2>1. CASE j < i
    <3>1. (front \o back)[j] = s[j] /\ j \in 1..Len(s) - 1
      BY <1>1, <1>2, <1>5, <2>1
    <3> QED
      BY <3>1
  <2>2. CASE j > i
    <3>1. /\ j - 1 \in 1..Len(s) - 1 /\ ~(j - 1 <= i - 1)
          /\ (j - 1) - (i - 1) = j - i
          /\ j - i \in 1..Len(s) - i /\ (j - i) + i = j
      BY <1>1, <2>2
    <3>2. (front \o back)[j - 1] = back[j - i]
      BY <1>5, <3>1
    <3>3. back[j - i] = s[j]
      BY <1>3, <3>1
    <3> QED
      BY <3>1, <3>2, <3>3
  <2>3. j < i \/ j > i
    BY <1>1
  <2> QED
    BY <2>1, <2>2, <2>3
<1>8. ASSUME NEW k \in 1..Len(s) - 1
      PROVE  (front \o back)[k] = IF k < i THEN s[k] ELSE s[k + 1]
  <2>1. CASE k < i
    <3>1. k <= i - 1 /\ k \in 1..i - 1
      BY <1>1, <2>1
    <3> QED
      BY <1>2, <1>5, <2>1, <3>1
  <2>2. CASE ~(k < i)
    <3>1. ~(k <= i - 1) /\ k - (i - 1) \in 1..Len(s) - i
          /\ k - (i - 1) + i = k + 1
      BY <1>1, <2>2
    <3> QED
      BY <1>3, <1>5, <2>2, <3>1
  <2> QED
    BY <2>1, <2>2
<1> QED
  BY <1>4, <1>5, <1>6, <1>7, <1>8
--------------------------------------------------------------------------
\* Fields of a group after one resource more or less.
LEMMA AddResourceType ==
  ASSUME NEW g \in Group, NEW r \in Resources
  PROVE  AddResource(g, r) \in Group
<1>1. /\ Plus(g.number, 1) \in Uint
      /\ Plus(g.total, r.usize) \in Uint
  BY PlusType, ResourceType, ConstantTypes DEF Group
<1>2. (IF Unset \in {g.totalC, r.csize} THEN g.totalC
       ELSE Plus(g.totalC, r.csize)) \in Uint \cup {Unset}
  BY PlusType, ResourceType DEF Group
<1>3. Append(g.items, r) \in Seq(Resources)
  BY AppendProperties DEF Group
<1> QED
  BY <1>1, <1>2, <1>3 DEF AddResource, Group

LEMMA WithoutType ==
  ASSUME NEW g \in Group, NEW i \in DOMAIN g.items,
         g.totalC # Unset, g.items[i].csize # Unset
  PROVE  Without(g, i) \in Group
<1>1. g.items \in Seq(Resources) /\ g.items[i] \in Resources
  BY LenProperties, ElementOfSeq DEF Group
<1>2. RemoveAt(g.items, i) \in Seq(Resources)
  BY <1>1, RemoveAtProperties
<1>3. /\ Minus(g.number, 1) \in Uint
      /\ Minus(g.total, g.items[i].usize) \in Uint
      /\ Minus(g.totalC, g.items[i].csize) \in Uint
  BY <1>1, MinusType, ResourceType, ConstantTypes DEF Group
<1> QED
  BY <1>2, <1>3 DEF Without, Group

LEMMA UpgradedType ==
  ASSUME NEW g \in Group
  PROVE  /\ Upgraded(g) \in Group
         /\ Upgraded(g).items = g.items
         /\ Upgraded(g).number = g.number
         /\ Upgraded(g).totalC = g.totalC
BY ConstantTypes DEF Upgraded, Group

\* Sorting keeps the type and the entries of a list.
LEMMA SortedListsProperties ==
  ASSUME NEW s \in Seq(Resources), NEW list \in SortedLists(s)
  PROVE  /\ list \in Seq(Resources)
         /\ Len(list) = Len(s)
         /\ \A j \in DOMAIN s : \E i \in DOMAIN list : list[i] = s[j]
<1>1. PICK q \in [DOMAIN s -> DOMAIN s] :
        /\ Permutes(q, DOMAIN s)
        /\ list = [i \in DOMAIN s |-> s[q[i]]]
  BY DEF SortedLists
<1>2. DOMAIN s = 1..Len(s) /\ Len(s) \in Nat
      /\ \A n \in 1..Len(s) : s[n] \in Resources
  BY LenProperties, ElementOfSeq
<1>3. list \in [1..Len(s) -> Resources]
  BY <1>1, <1>2
<1>4. list \in Seq(Resources) /\ DOMAIN list = 1..Len(s)
  BY <1>2, <1>3, SeqDef
<1>5. Len(list) = Len(s)
  BY <1>2, <1>4, LenProperties
<1>6. \A j \in DOMAIN s : \E i \in DOMAIN list : list[i] = s[j]
  BY <1>1 DEF Permutes
<1> QED
  BY <1>4, <1>5, <1>6

LEMMA ListingType ==
  ASSUME NEW calc \in BOOLEAN, NEW list \in Listings(calc)
  PROVE  list \in Seq(Resources)
<1>1. list \in BoundedSeq(Plain, MaxItems)
  BY DEF Listings
<1>2. PICK n \in 0..MaxItems : list \in [1..n -> Plain]
  BY <1>1 DEF BoundedSeq, SeqOf
<1>3. list \in Seq(Plain)
  BY <1>2, SeqDef, SizesAssumption
<1> QED
  BY <1>3, SeqMonotonic, ConstantTypes

LEMMA RoomType ==
  ASSUME NEW t, NEW list, Room(t, list)
  PROVE  list \in Seq(Resources \cup {BadResource})
<1>1. PICK n \in 0..MaxItems : list \in [1..n -> Resources \cup {BadResource}]
  BY DEF Room, BoundedSeq, SeqOf
<1> QED
  BY <1>1, SeqDef, SizesAssumption

LEMMA YamlFileType ==
  ASSUME TypeOK, NEW d \in YamlFiles
  PROVE  d.type \in Types /\ d.version \in Version
<1>1. CASE d \in Documents
  BY <1>1, DocumentsAssumption DEF Types
<1>2. CASE \E g \in Groups, v \in YamlVersions : d = ExportYaml(groups[g], v)
  <2>1. PICK g \in Groups, v \in YamlVersions : d = ExportYaml(groups[g], v)
    BY <1>2
  <2>2. groups[g].type \in Types /\ groups[g].version \in Version
    BY DEF TypeOK, Group
  <2>3. ExportedVersion(v, groups[g].version) \in Version
    BY <2>2, ExportedVersionIsValid, ConstantTypes DEF YamlVersions
  <2>4. d.type = groups[g].type
        /\ d.version = ExportedVersion(v, groups[g].version)
    BY <2>1 DEF ExportYaml
  <2> QED
    BY <2>2, <2>3, <2>4
<1> QED
  BY <1>1, <1>2 DEF YamlFiles
--------------------------------------------------------------------------
\* Assigning one group keeps the type of all.
LEMMA OneGroupType ==
  ASSUME TypeOK, NEW t \in Groups, NEW g \in Group
  PROVE  [groups EXCEPT ![t] = g] \in [Groups -> Group]
BY DEF TypeOK

\* A call that ends leaves a well typed idle call.
LEMMA ReturnType ==
  ASSUME NEW code \in Codes, Return(code),
         groups' \in [Groups -> Group]
  PROVE  TypeOK'
BY DEF Return, Idle, TypeOK, PendingOK, Calls

LEMMA InitType == Init => TypeOK
<1> SUFFICES ASSUME Init PROVE TypeOK
  OBVIOUS
<1>1. Fresh \in Group
  <2>1. <<>> \in Seq(Resources)
    BY EmptySeq
  <2>2. TypeId \in Types
    BY DEF Types
  <2> QED
    BY <2>1, <2>2, ConstantTypes DEF Fresh, Group
<1>2. groups \in [Groups -> Group]
  BY <1>1 DEF Init
<1>3. call = [op |-> "idle", target |-> NoGroup, pending |-> <<>>,
              flag |-> FALSE]
  BY DEF Init, Idle
<1>4. call \in [op : Calls, target : Groups \cup {NoGroup},
               pending : {call.pending}, flag : BOOLEAN]
  BY <1>3 DEF Calls
<1>5. PendingOK
  BY <1>3 DEF PendingOK
<1>6. result \in Codes
  BY DEF Init, Codes
<1> QED
  BY <1>2, <1>4, <1>5, <1>6 DEF TypeOK

\* The calls that begin a loop.
LEMMA BeginType ==
  ASSUME TypeOK, NEW t \in Groups, NEW flag \in BOOLEAN,
         NEW op \in Calls \ {"idle"}, NEW list, Begin(op, t, list, flag),
         groups' \in [Groups -> Group],
         op \in {"yaml", "csv", "merge"} =>
           list \in Seq(Resources \cup {BadResource}),
         op = "directory" => list \in Seq(Resources),
         op = "remove" => list \in Seq(Paths)
  PROVE  TypeOK'
BY DEF Begin, TypeOK, PendingOK, Calls, AddingCalls

\* The entry a loop handles next, and what is left after it.
LEMMA PendingType ==
  ASSUME TypeOK, call.pending # <<>>
  PROVE  LET rest == [call EXCEPT !.pending = Tail(@)]
         IN  /\ rest \in [op : Calls, target : Groups \cup {NoGroup},
                          pending : {rest.pending}, flag : BOOLEAN]
             /\ rest.op = call.op /\ rest.target = call.target
             /\ rest.pending = Tail(call.pending)
             /\ \/ /\ call.op \in {"yaml", "csv", "merge"}
                   /\ Tail(call.pending) \in Seq(Resources \cup {BadResource})
                   /\ Head(call.pending) \in Resources \cup {BadResource}
                \/ /\ call.op = "directory"
                   /\ Tail(call.pending) \in Seq(Resources)
                   /\ Head(call.pending) \in Resources
                \/ call.op = "remove" /\ Tail(call.pending) \in Seq(Paths)
             /\ Len(Tail(call.pending)) = Len(call.pending) - 1
             /\ Len(call.pending) \in Nat
<1>1. \E S : call.pending \in Seq(S)
  BY DEF TypeOK, PendingOK
<1>2. /\ Len(Tail(call.pending)) = Len(call.pending) - 1
      /\ Len(call.pending) \in Nat
  BY <1>1, HeadTailProperties, LenProperties
<1>3. \/ /\ call.op \in {"yaml", "csv", "merge"}
         /\ Tail(call.pending) \in Seq(Resources \cup {BadResource})
         /\ Head(call.pending) \in Resources \cup {BadResource}
      \/ /\ call.op = "directory"
         /\ Tail(call.pending) \in Seq(Resources)
         /\ Head(call.pending) \in Resources
      \/ call.op = "remove" /\ Tail(call.pending) \in Seq(Paths)
  BY HeadTailProperties DEF TypeOK, PendingOK
<1> QED
  BY <1>2, <1>3 DEF TypeOK

\* A loop that goes on to its next entry.
LEMMA AdvanceType ==
  ASSUME TypeOK, call.pending # <<>>,
         call' = [call EXCEPT !.pending = Tail(@)], UNCHANGED result,
         groups' \in [Groups -> Group]
  PROVE  TypeOK'
BY PendingType DEF TypeOK, PendingOK

LEMMA NextType == TypeOK /\ [Next]_vars => TypeOK'
<1> SUFFICES ASSUME TypeOK, [Next]_vars PROVE TypeOK'
  OBVIOUS
<1>0. CASE UNCHANGED vars
  BY <1>0 DEF vars, TypeOK, PendingOK
<1>g. groups \in [Groups -> Group]
  BY DEF TypeOK
<1>1. ASSUME NEW t \in Groups, NewGroup(t) PROVE TypeOK'
  <2>1. Fresh \in Group
    <3>1. <<>> \in Seq(Resources) /\ TypeId \in Types
      BY EmptySeq DEF Types
    <3> QED
      BY <3>1, ConstantTypes DEF Fresh, Group
  <2> QED
    BY <1>1, <2>1, OneGroupType DEF NewGroup, TypeOK, PendingOK
<1>2. ASSUME NEW t \in Groups, NEW calc \in BOOLEAN, CreateFromDirectory(t, calc)
      PROVE TypeOK'
  <2>1. PICK list \in Listings(calc) :
          Begin("directory", t, list, calc) /\ UNCHANGED groups
    BY <1>2 DEF CreateFromDirectory
  <2>2. list \in Seq(Resources)
    BY ListingType
  <2> QED
    BY <1>g, <2>1, <2>2, BeginType DEF Calls, AddingCalls
<1>3. ASSUME NEW t \in Groups, NEW d \in YamlFiles, ImportFromYaml(t, d)
      PROVE TypeOK'
  <2> DEFINE typed  == [groups[t] EXCEPT !.type = d.type]
             dated  == [typed EXCEPT !.version = d.version]
             header == IF "TotalResourcesSizeCompressed" \in d.fields THEN dated
                       ELSE [dated EXCEPT !.totalC = Unset]
  <2>1. groups[t] \in Group
    BY <1>g
  <2>2. d.type \in Types /\ d.version \in Version
    BY YamlFileType
  <2>3. typed \in Group
    BY <2>1, <2>2 DEF Group
  <2>4. dated \in Group
    BY <2>2, <2>3 DEF Group
  <2>5. header \in Group
    BY <2>4 DEF Group
  <2>6. \/ \E g \in {groups[t], typed, dated, header}, code \in Codes :
             groups' = [groups EXCEPT ![t] = g] /\ Return(code)
        \/ /\ groups' = [groups EXCEPT ![t] = header]
           /\ Room(t, d.items) /\ Begin("yaml", t, d.items, FALSE)
    BY <1>3 DEF ImportFromYaml, Codes
  <2>7. CASE \E g \in {groups[t], typed, dated, header}, code \in Codes :
               groups' = [groups EXCEPT ![t] = g] /\ Return(code)
    BY <2>1, <2>3, <2>4, <2>5, <2>7, OneGroupType, ReturnType
  <2>8. CASE /\ groups' = [groups EXCEPT ![t] = header]
             /\ Room(t, d.items) /\ Begin("yaml", t, d.items, FALSE)
    <3>1. groups' \in [Groups -> Group]
      BY <2>5, <2>8, OneGroupType
    <3>2. d.items \in Seq(Resources \cup {BadResource})
      BY <2>8, RoomType
    <3> QED
      BY <2>8, <3>1, <3>2, BeginType DEF Calls, AddingCalls
  <2> QED
    BY <2>6, <2>7, <2>8
<1>4. ASSUME NEW t \in Groups, ImportFromCSV(t) PROVE TypeOK'
  <2>1. PICK rows : /\ Room(t, rows) /\ Begin("csv", t, rows, FALSE)
                    /\ UNCHANGED groups
    BY <1>4 DEF ImportFromCSV
  <2> QED
    BY <1>g, <2>1, RoomType, BeginType DEF Calls, AddingCalls
<1>5. ASSUME NEW t \in Groups, NEW this \in Groups, NEW other \in Groups,
             Merge(this, other, t)
      PROVE TypeOK'
  <2>1. PICK merged : /\ Room(t, merged) /\ Begin("merge", t, merged, FALSE)
                      /\ UNCHANGED groups
    BY <1>5 DEF Merge
  <2> QED
    BY <1>g, <2>1, RoomType, BeginType DEF Calls, AddingCalls
<1>6. ASSUME NEW t \in Groups, NEW err \in BOOLEAN, RemoveResources(t, err)
      PROVE TypeOK'
  <2>1. PICK paths \in BoundedSeq(Paths, MaxItems) :
          Begin("remove", t, paths, err) /\ UNCHANGED groups
    BY <1>6 DEF RemoveResources
  <2>2. PICK n \in 0..MaxItems : paths \in [1..n -> Paths]
    BY DEF BoundedSeq, SeqOf
  <2>3. paths \in Seq(Paths)
    BY <2>2, SeqDef, SizesAssumption
  <2> QED
    BY <1>g, <2>1, <2>3, BeginType DEF Calls, AddingCalls
<1>7. ASSUME NEW t \in Groups, ExportCsv(t) PROVE TypeOK'
  <2>1. PICK list \in SortedLists(groups[t].items) :
          groups' = [groups EXCEPT ![t].items = list]
    BY <1>7 DEF ExportCsv
  <2>2. list \in Seq(Resources)
    BY <1>g, SortedListsProperties DEF Group
  <2>3. [groups[t] EXCEPT !.items = list] \in Group
    BY <1>g, <2>2 DEF Group
  <2>4. groups' \in [Groups -> Group]
    BY <2>1, <2>3, OneGroupType
  <2>5. \E code \in Codes : Return(code)
    BY <1>7 DEF ExportCsv, Codes
  <2> QED
    BY <2>4, <2>5, ReturnType
<1>8. ASSUME NEW t \in Groups, AddNext(t) PROVE TypeOK'
  <2> DEFINE r == Head(call.pending)
             added == AddResource(Upgraded(groups[t]), r)
  <2>1. call.pending # <<>> /\ r # BadResource /\ call.op \in AddingCalls
        /\ groups' = [groups EXCEPT ![t] = added]
    BY <1>8 DEF AddNext
  <2>2. r \in Resources
    BY <2>1, PendingType DEF AddingCalls
  <2>3. added \in Group
    BY <1>g, <2>2, UpgradedType, AddResourceType
  <2>4. groups' \in [Groups -> Group]
    BY <2>1, <2>3, OneGroupType
  <2>5. \/ Return("bad_optional_access")
        \/ call' = [call EXCEPT !.pending = Tail(@)] /\ UNCHANGED result
    BY <1>8 DEF AddNext
  <2>6. "bad_optional_access" \in Codes
    BY DEF Codes
  <2> QED
    BY <2>1, <2>4, <2>5, <2>6, ReturnType, AdvanceType
<1>9. ASSUME NEW t \in Groups, RejectEntry(t) \/ RejectCopy(t) \/ DirectoryFails(t)
      PROVE TypeOK'
  <2>1. UNCHANGED groups /\ \E code \in Codes : Return(code)
    BY <1>9 DEF RejectEntry, RejectCopy, DirectoryFails, Codes
  <2> QED
    BY <1>g, <2>1, ReturnType
<1>10. ASSUME NEW t \in Groups, FinishAdding(t) PROVE TypeOK'
  <2>1. [groups[t] EXCEPT !.totalC = Unset] \in Group
    BY <1>g DEF Group
  <2>2. groups' \in [Groups -> Group]
    BY <1>10, <1>g, <2>1, OneGroupType DEF FinishAdding
  <2>3. Return("SUCCESS") /\ "SUCCESS" \in Codes
    BY <1>10 DEF FinishAdding, Codes
  <2> QED
    BY <2>2, <2>3, ReturnType
<1>11. ASSUME NEW t \in Groups, RemoveMissing(t) PROVE TypeOK'
  <2>1. UNCHANGED groups /\ call.pending # <<>>
    BY <1>11 DEF RemoveMissing, Removing
  <2>2. \/ Return("RESOURCE_NOT_FOUND")
        \/ call' = [call EXCEPT !.pending = Tail(@)] /\ UNCHANGED result
    BY <1>11 DEF RemoveMissing
  <2>3. "RESOURCE_NOT_FOUND" \in Codes
    BY DEF Codes
  <2> QED
    BY <1>g, <2>1, <2>2, <2>3, ReturnType, AdvanceType
<1>12. ASSUME NEW t \in Groups, RemoveFound(t) PROVE TypeOK'
  <2>1. PICK i \in DOMAIN groups[t].items :
          /\ groups[t].items[i].csize # Unset
          /\ groups[t].totalC # Unset
          /\ groups' = [groups EXCEPT ![t] = Without(@, i)]
    BY <1>12 DEF RemoveFound
  <2>2. groups' \in [Groups -> Group]
    BY <1>g, <2>1, WithoutType, OneGroupType
  <2> QED
    BY <1>12, <2>2, AdvanceType DEF RemoveFound, Removing
<1>13. ASSUME NEW t \in Groups, RemoveUncompressed(t) PROVE TypeOK'
  <2>1. [groups[t] EXCEPT !.number = Minus(@, 1)] \in Group
    BY <1>g, MinusType, ConstantTypes DEF Group
  <2>2. groups' \in [Groups -> Group]
    BY <1>13, <1>g, <2>1, OneGroupType DEF RemoveUncompressed
  <2>3. Return("RESOURCE_VALUE_NOT_SET") /\ "RESOURCE_VALUE_NOT_SET" \in Codes
    BY <1>13 DEF RemoveUncompressed, Codes
  <2> QED
    BY <2>2, <2>3, ReturnType
<1>14. ASSUME NEW t \in Groups, RemoveThrows(t) PROVE TypeOK'
  <2>1. PICK i \in DOMAIN groups[t].items :
          groups' = [groups EXCEPT
                       ![t].number = Minus(@, 1),
                       ![t].total = Minus(@, groups[t].items[i].usize)]
    BY <1>14 DEF RemoveThrows
  <2>2. groups[t] \in Group /\ groups[t].items[i] \in Resources
    BY <1>g, LenProperties, ElementOfSeq DEF Group
  <2>3. /\ Minus(groups[t].number, 1) \in Uint
        /\ Minus(groups[t].total, groups[t].items[i].usize) \in Uint
    BY <2>2, MinusType, ResourceType, ConstantTypes DEF Group
  <2>4. [groups[t] EXCEPT
           !.number = Minus(@, 1),
           !.total = Minus(@, groups[t].items[i].usize)] \in Group
    BY <2>2, <2>3 DEF Group
  <2>5. groups' \in [Groups -> Group]
    BY <1>g, <2>1, <2>4
  <2>6. Return("bad_optional_access") /\ "bad_optional_access" \in Codes
    BY <1>14 DEF RemoveThrows, Codes
  <2> QED
    BY <2>5, <2>6, ReturnType
<1>15. ASSUME NEW t \in Groups, FinishRemoving(t) PROVE TypeOK'
  <2>1. UNCHANGED groups /\ Return("SUCCESS") /\ "SUCCESS" \in Codes
    BY <1>15 DEF FinishRemoving, Codes
  <2> QED
    BY <1>g, <2>1, ReturnType
<1> QED
  BY <1>0, <1>1, <1>2, <1>3, <1>4, <1>5, <1>6, <1>7, <1>8, <1>9, <1>10, <1>11,
     <1>12, <1>13, <1>14, <1>15 DEF Next

\* Every reachable state is well typed, the ones that calls leave behind
\* when they fail half way included.
THEOREM TypeCorrect == Spec => []TypeOK
BY InitType, NextType, PTL DEF Spec
--------------------------------------------------------------------------
\* The number of one group is exact while its sizes are known.
Exact(g) == Compressed(g) => g.number = Len(g.items)

\* A step that changes one group to one that is exact again keeps CountExact.
LEMMA OneGroupExact ==
  ASSUME TypeOK, CountExact, NEW t \in Groups, NEW g, Exact(g),
         groups' = [groups EXCEPT ![t] = g]
  PROVE  CountExact'
<1> SUFFICES ASSUME NEW h \in Groups PROVE Exact(groups'[h])
  BY DEF CountExact, Exact
<1>1. groups'[h] = IF h = t THEN g ELSE groups[h]
  BY DEF TypeOK
<1> QED
  BY <1>1 DEF CountExact, Exact

LEMMA SameGroupsExact ==
  ASSUME CountExact, UNCHANGED groups
  PROVE  CountExact'
BY DEF CountExact

LEMMA AddExact ==
  ASSUME NEW g \in Group, NEW r \in Resources, Exact(g),
         Len(g.items) < MaxItems
  PROVE  Exact(AddResource(g, r))
<1> DEFINE added == AddResource(g, r)
<1> SUFFICES ASSUME Compressed(added) PROVE added.number = Len(added.items)
  BY DEF Exact
<1>1. g.items \in Seq(Resources) /\ Len(g.items) \in Nat /\ g.number \in Uint
      /\ DOMAIN g.items = 1..Len(g.items)
  BY LenProperties DEF Group
<1>2. /\ added.items = Append(g.items, r)
      /\ added.number = Plus(g.number, 1)
      /\ added.totalC = IF Unset \in {g.totalC, r.csize} THEN g.totalC
                        ELSE Plus(g.totalC, r.csize)
  BY DEF AddResource, Group
<1>3. /\ Len(added.items) = Len(g.items) + 1
      /\ \A i \in 1..Len(g.items) : added.items[i] = g.items[i]
      /\ DOMAIN added.items = 1..Len(g.items) + 1
  <2>1. added.items \in Seq(Resources)
    BY <1>1, <1>2, AppendProperties
  <2> QED
    BY <1>1, <1>2, <2>1, AppendProperties, LenProperties
<1>4. g.totalC # Unset
  BY <1>2 DEF Compressed
<1>5. \A i \in DOMAIN g.items : g.items[i].csize # Unset
  BY <1>1, <1>3 DEF Compressed
<1>6. g.number = Len(g.items)
  BY <1>4, <1>5 DEF Exact, Compressed
<1>7. Plus(g.number, 1) = g.number + 1
  <2>1. ~(Len(g.items) + 1 > MaxUint)
    BY <1>1, SizesAssumption
  <2> QED
    BY <1>6, <2>1 DEF Plus
<1> QED
  BY <1>2, <1>3, <1>6, <1>7

LEMMA WithoutExact ==
  ASSUME NEW g \in Group, Exact(g), NEW i \in DOMAIN g.items,
         g.totalC # Unset, g.items[i].csize # Unset
  PROVE  Exact(Without(g, i))
<1> DEFINE left == Without(g, i)
<1> SUFFICES ASSUME Compressed(left) PROVE left.number = Len(left.items)
  BY DEF Exact
<1>1. g.items \in Seq(Resources) /\ Len(g.items) \in Nat
      /\ DOMAIN g.items = 1..Len(g.items)
  BY LenProperties DEF Group
<1>2. left.items = RemoveAt(g.items, i) /\ left.number = Minus(g.number, 1)
  BY DEF Without, Group
<1>3. /\ Len(left.items) = Len(g.items) - 1
      /\ \A j \in DOMAIN g.items \ {i} :
           \E k \in DOMAIN left.items : left.items[k] = g.items[j]
  <2>1. /\ Len(RemoveAt(g.items, i)) = Len(g.items) - 1
        /\ \A j \in DOMAIN g.items \ {i} :
             \E k \in DOMAIN RemoveAt(g.items, i) :
               RemoveAt(g.items, i)[k] = g.items[j]
    BY <1>1, RemoveAtProperties
  <2> HIDE DEF left
  <2> QED
    BY <1>2, <2>1
<1>4. \A j \in DOMAIN g.items : g.items[j].csize # Unset
  BY <1>3 DEF Compressed
<1>5. g.number = Len(g.items)
  BY <1>4 DEF Exact, Compressed
<1>6. Minus(g.number, 1) = Len(g.items) - 1
  BY <1>1, <1>5 DEF Minus
<1> QED
  BY <1>2, <1>3, <1>6
--------------------------------------------------------------------------
LEMMA InitCount == Init => CountInv
<1> SUFFICES ASSUME Init PROVE CountInv
  OBVIOUS
<1>1. Fits
  BY DEF Init, Fits, Idle, AddingCalls
<1>2. CountExact
  BY EmptySeq DEF Init, CountExact, Fresh
<1> QED
  BY <1>1, <1>2, InitType DEF CountInv

\* A call that has returned adds nothing, nor does one that removes.
LEMMA ReturnFits ==
  ASSUME NEW code, Return(code)
  PROVE  Fits'
BY DEF Return, Idle, Fits, AddingCalls

LEMMA BeginFits ==
  ASSUME NEW t \in Groups, NEW op, NEW list, NEW flag,
         Begin(op, t, list, flag),
         op \in AddingCalls =>
           Len(groups'[t].items) + Len(list) <= MaxItems
  PROVE  Fits'
BY DEF Begin, Fits

LEMMA RemovingFits ==
  ASSUME call.op = "remove", call' = [call EXCEPT !.pending = Tail(@)], TypeOK
  PROVE  Fits'
BY DEF Fits, TypeOK, AddingCalls

\* One step per action; the second conjunct is the number itself.
LEMMA NextCount == CountInv /\ [Next]_vars => CountInv'
<1> SUFFICES ASSUME CountInv, [Next]_vars PROVE Fits' /\ CountExact'
  BY NextType DEF CountInv
<1> USE DEF CountInv
<1>g. \A g \in Groups : groups[g] \in Group /\ Exact(groups[g])
  BY DEF TypeOK, CountExact, Exact
<1>0. CASE UNCHANGED vars
  BY <1>0 DEF vars, Fits, CountExact
<1>1. ASSUME NEW t \in Groups, NewGroup(t) PROVE Fits' /\ CountExact'
  <2>1. Exact(Fresh)
    BY EmptySeq DEF Exact, Fresh
  <2>2. CountExact'
    BY <1>1, <2>1, OneGroupExact DEF NewGroup
  <2>3. Fits'
    BY <1>1 DEF NewGroup, Fits, AddingCalls
  <2> QED
    BY <2>2, <2>3
<1>2. ASSUME NEW t \in Groups, NEW calc \in BOOLEAN, CreateFromDirectory(t, calc)
      PROVE Fits' /\ CountExact'
  <2>1. PICK list : Room(t, list) /\ Begin("directory", t, list, calc)
                    /\ UNCHANGED groups
    BY <1>2 DEF CreateFromDirectory
  <2> QED
    BY <2>1, BeginFits, SameGroupsExact DEF Room
<1>3. ASSUME NEW t \in Groups, NEW d \in YamlFiles, ImportFromYaml(t, d)
      PROVE Fits' /\ CountExact'
  <2> DEFINE typed  == [groups[t] EXCEPT !.type = d.type]
             dated  == [typed EXCEPT !.version = d.version]
             header == IF "TotalResourcesSizeCompressed" \in d.fields THEN dated
                       ELSE [dated EXCEPT !.totalC = Unset]
  <2>1. typed.items = groups[t].items /\ Exact(typed)
    BY <1>g DEF Exact, Group, Compressed
  <2>2. dated.items = groups[t].items /\ Exact(dated)
    BY <1>g DEF Exact, Group, Compressed
  <2>3. header.items = groups[t].items /\ Exact(header)
    BY <1>g DEF Exact, Group, Compressed
  <2>4. \/ \E g \in {groups[t], typed, dated, header}, code \in Codes :
             groups' = [groups EXCEPT ![t] = g] /\ Return(code)
        \/ /\ groups' = [groups EXCEPT ![t] = header]
           /\ Room(t, d.items) /\ Begin("yaml", t, d.items, FALSE)
    BY <1>3 DEF ImportFromYaml, Codes
  <2> HIDE DEF typed, dated, header
  <2>5. CountExact'
    BY <1>g, <2>1, <2>2, <2>3, <2>4, OneGroupExact
  <2>6. CASE \E code \in Codes : Return(code)
    BY <2>5, <2>6, ReturnFits
  <2>7. CASE /\ groups' = [groups EXCEPT ![t] = header]
             /\ Room(t, d.items) /\ Begin("yaml", t, d.items, FALSE)
    <3>1. groups'[t].items = groups[t].items
      BY <2>3, <2>7 DEF TypeOK
    <3> QED
      BY <2>5, <2>7, <3>1, BeginFits DEF Room
  <2> QED
    BY <2>4, <2>6, <2>7
<1>4. ASSUME NEW t \in Groups, ImportFromCSV(t) PROVE Fits' /\ CountExact'
  <2>1. PICK rows : Room(t, rows) /\ Begin("csv", t, rows, FALSE)
                    /\ UNCHANGED groups
    BY <1>4 DEF ImportFromCSV
  <2> QED
    BY <2>1, BeginFits, SameGroupsExact DEF Room
<1>5. ASSUME NEW t \in Groups, NEW this \in Groups, NEW other \in Groups,
             Merge(this, other, t)
      PROVE Fits' /\ CountExact'
  <2>1. PICK merged : Room(t, merged) /\ Begin("merge", t, merged, FALSE)
                      /\ UNCHANGED groups
    BY <1>5 DEF Merge
  <2> QED
    BY <2>1, BeginFits, SameGroupsExact DEF Room
<1>6. ASSUME NEW t \in Groups, NEW err \in BOOLEAN, RemoveResources(t, err)
      PROVE Fits' /\ CountExact'
  <2>1. PICK paths : Begin("remove", t, paths, err) /\ UNCHANGED groups
    BY <1>6 DEF RemoveResources
  <2> QED
    BY <2>1, BeginFits, SameGroupsExact DEF AddingCalls
<1>7. ASSUME NEW t \in Groups, ExportCsv(t) PROVE Fits' /\ CountExact'
  <2>1. PICK list \in SortedLists(groups[t].items) :
          groups' = [groups EXCEPT ![t].items = list]
    BY <1>7 DEF ExportCsv
  <2>2. /\ Len(list) = Len(groups[t].items)
        /\ \A j \in DOMAIN groups[t].items :
             \E i \in DOMAIN list : list[i] = groups[t].items[j]
    BY <1>g, SortedListsProperties DEF Group
  <2>3. Exact([groups[t] EXCEPT !.items = list])
    BY <1>g, <2>2 DEF Exact, Compressed, Group
  <2>4. CountExact'
    BY <2>1, <2>3, OneGroupExact
  <2>5. Fits'
    BY <1>7, ReturnFits DEF ExportCsv
  <2> QED
    BY <2>4, <2>5
<1>8. ASSUME NEW t \in Groups, AddNext(t) PROVE Fits' /\ CountExact'
  <2> DEFINE r == Head(call.pending)
             up == Upgraded(groups[t])
             added == AddResource(up, r)
  <2>1. /\ call.pending # <<>> /\ r # BadResource /\ call.op \in AddingCalls
        /\ call.target = t /\ groups' = [groups EXCEPT ![t] = added]
    BY <1>8 DEF AddNext
  <2>2. r \in Resources
    BY <2>1, PendingType DEF AddingCalls
  <2>3. up \in Group /\ up.items = groups[t].items /\ Exact(up)
    BY <1>g, UpgradedType DEF Exact, Compressed
  <2>4. /\ Len(Tail(call.pending)) = Len(call.pending) - 1
        /\ Len(call.pending) \in Nat /\ Len(up.items) \in Nat
    BY <2>1, <2>3, PendingType, LenProperties DEF Group
  <2>5. Len(call.pending) # 0
    BY <2>1, EmptySeq DEF TypeOK, PendingOK
  <2>6. Len(up.items) + Len(call.pending) <= MaxItems
    BY <2>1, <2>3 DEF Fits
  <2>7. Exact(added)
    <3> DEFINE n == Len(up.items)
               m == Len(call.pending)
    <3>0. n \in Nat /\ m \in Nat /\ m # 0 /\ n + m <= MaxItems
      BY <2>4, <2>5, <2>6
    <3> HIDE DEF r, up, n, m
    <3>1. n < MaxItems
      BY <3>0, SizesAssumption
    <3> USE DEF n
    <3> QED
      BY <2>2, <2>3, <3>1, AddExact
  <2>8. CountExact'
    BY <2>1, <2>7, OneGroupExact
  <2>9. CASE Return("bad_optional_access")
    BY <2>8, <2>9, ReturnFits
  <2>10. CASE call' = [call EXCEPT !.pending = Tail(@)]
    <3>1. groups'[t].items = Append(up.items, r)
      BY <2>1, <2>3 DEF AddResource, TypeOK, Group
    <3>2. Len(groups'[t].items) = Len(up.items) + 1
      BY <2>2, <2>3, <3>1, AppendProperties DEF Group
    <3>3. call'.op = call.op /\ call'.target = t
          /\ call'.pending = Tail(call.pending)
      BY <2>1, <2>10, PendingType
    <3>4. Len(groups'[t].items) + Len(call'.pending) <= MaxItems
      <4> DEFINE n == Len(up.items)
                 m == Len(call.pending)
      <4>1. n \in Nat /\ m \in Nat /\ n + m <= MaxItems
        BY <2>4, <2>6
      <4>2. Len(groups'[t].items) + Len(call'.pending) = (n + 1) + (m - 1)
        BY <2>4, <3>2, <3>3
      <4> HIDE DEF n, m
      <4>3. (n + 1) + (m - 1) = n + m
        BY <4>1
      <4> QED
        BY <4>1, <4>2, <4>3
    <3> QED
      BY <2>8, <3>3, <3>4 DEF Fits
  <2> QED
    BY <1>8, <2>9, <2>10 DEF AddNext
<1>9. ASSUME NEW t \in Groups, RejectEntry(t) \/ RejectCopy(t) \/ DirectoryFails(t)
      PROVE Fits' /\ CountExact'
  BY <1>9, ReturnFits, SameGroupsExact DEF RejectEntry, RejectCopy, DirectoryFails
<1>10. ASSUME NEW t \in Groups, FinishAdding(t) PROVE Fits' /\ CountExact'
  <2>1. Exact([groups[t] EXCEPT !.totalC = Unset])
    BY <1>g DEF Exact, Compressed, Group
  <2>2. CountExact'
    BY <1>10, <2>1, OneGroupExact, SameGroupsExact DEF FinishAdding
  <2> QED
    BY <1>10, <2>2, ReturnFits DEF FinishAdding
<1>11. ASSUME NEW t \in Groups, RemoveMissing(t) PROVE Fits' /\ CountExact'
  BY <1>11, ReturnFits, RemovingFits, SameGroupsExact DEF RemoveMissing, Removing
<1>12. ASSUME NEW t \in Groups, RemoveFound(t) PROVE Fits' /\ CountExact'
  <2>1. PICK i \in DOMAIN groups[t].items :
          /\ groups[t].items[i].csize # Unset
          /\ groups[t].totalC # Unset
          /\ groups' = [groups EXCEPT ![t] = Without(@, i)]
    BY <1>12 DEF RemoveFound
  <2>2. CountExact'
    BY <1>g, <2>1, WithoutExact, OneGroupExact
  <2> QED
    BY <1>12, <2>2, RemovingFits DEF RemoveFound, Removing
<1>13. ASSUME NEW t \in Groups, RemoveUncompressed(t)
       PROVE Fits' /\ CountExact'
  <2>1. PICK i \in DOMAIN groups[t].items : groups[t].items[i].csize = Unset
    BY <1>13 DEF RemoveUncompressed
  <2>2. Exact([groups[t] EXCEPT !.number = Minus(@, 1)])
    BY <1>g, <2>1 DEF Exact, Compressed, Group
  <2>3. CountExact'
    BY <1>13, <2>2, OneGroupExact DEF RemoveUncompressed
  <2> QED
    BY <1>13, <2>3, ReturnFits DEF RemoveUncompressed
<1>14. ASSUME NEW t \in Groups, RemoveThrows(t) PROVE Fits' /\ CountExact'
  <2>1. PICK i \in DOMAIN groups[t].items :
          groups' = [groups EXCEPT
                       ![t].number = Minus(@, 1),
                       ![t].total = Minus(@, groups[t].items[i].usize)]
    BY <1>14 DEF RemoveThrows
  <2> DEFINE g == [groups[t] EXCEPT
                     !.number = Minus(@, 1),
                     !.total = Minus(@, groups[t].items[i].usize)]
  <2>2. groups' = [groups EXCEPT ![t] = g]
    BY <1>g, <2>1 DEF TypeOK
  <2>3. g.totalC = Unset
    BY <1>14, <1>g DEF RemoveThrows, Group
  <2>4. Exact(g)
    BY <2>3 DEF Exact, Compressed
  <2> HIDE DEF g
  <2>5. CountExact'
    BY <2>2, <2>4, OneGroupExact
  <2> QED
    BY <1>14, <2>5, ReturnFits DEF RemoveThrows
<1>15. ASSUME NEW t \in Groups, FinishRemoving(t) PROVE Fits' /\ CountExact'
  BY <1>15, ReturnFits, SameGroupsExact DEF FinishRemoving
<1> QED
  BY <1>0, <1>1, <1>2, <1>3, <1>4, <1>5, <1>6, <1>7, <1>8, <1>9, <1>10, <1>11,
     <1>12, <1>13, <1>14, <1>15 DEF Next

\* The number of resources is the length of the list in every reachable
\* state in which all sizes are known.
THEOREM CountCorrect == Spec => []CountExact
<1>1. CountInv => CountExact
  BY DEF CountInv
<1> QED
  BY <1>1, InitCount, NextCount, PTL DEF Spec

\* No sequence of imports leaves a version in a group that ExportYaml would
\* turn into one this build cannot read.
THEOREM ExportedVersionCorrect == Spec => []ExportedVersionSupported
<1>1. TypeOK => ExportedVersionSupported
  BY ExportedVersionIsValid DEF TypeOK, Group, ExportedVersionSupported
<1> QED
  BY <1>1, TypeCorrect, PTL
--------------------------------------------------------------------------
(* The two totals.  TotalOf adds one number after the other; its value     *)
(* does not depend on their order, and drops by what is taken out.         *)

\* f has the sums of the first numbers.
Adds(f, numbers) ==
  /\ f \in [0..Len(numbers) -> Nat]
  /\ f[0] = 0
  /\ \A k \in 1..Len(numbers) : f[k] = f[k - 1] + numbers[k]
  /\ TotalOf(numbers) = f[Len(numbers)]

LEMMA TotalUnfolds ==
  ASSUME NEW numbers \in Seq(Nat)
  PROVE  \E f : Adds(f, numbers)
<1> DEFINE N == Len(numbers)
           Rule(f) == f = [n \in 0..N |-> IF n = 0 THEN 0 ELSE f[n - 1] + numbers[n]]
           sum == CHOOSE f : Rule(f)
           G == [x \in Nat \X Nat |-> IF x[1] \in 1..N THEN x[2] + numbers[x[1]] ELSE 0]
<1>1. N \in Nat /\ \A k \in 1..N : numbers[k] \in Nat
  OBVIOUS
<1>2. G \in [Nat \X Nat -> Nat]
  <2> HIDE DEF N
  <2> QED
    BY <1>1
<1>3. PICK f : Unrolls(f, N, Nat, 0, G)
  <2> HIDE DEF G, N
  <2> QED
    BY <1>1, <1>2, FiniteRecursion
<1>4. f \in [0..N -> Nat] /\ f[0] = 0
  BY <1>3 DEF Unrolls
<1>5. ASSUME NEW k \in 1..N PROVE f[k] = f[k - 1] + numbers[k]
  <2>1. f[k] = G[<<k, f[k - 1]>>]
    <3> HIDE DEF G, N
    <3> QED
      BY <1>3 DEF Unrolls
  <2>2. k \in Nat /\ k - 1 \in 0..N
    BY <1>1
  <2>3. f[k - 1] \in Nat
    <3> HIDE DEF N
    <3> QED
      BY <1>4, <2>2
  <2> HIDE DEF N
  <2> QED
    BY <2>1, <2>2, <2>3
<1>6. Rule(f)
  <2> DEFINE E(n) == IF n = 0 THEN 0 ELSE f[n - 1] + numbers[n]
  <2>1. ASSUME NEW n \in 0..N PROVE f[n] = E(n)
    <3>1. CASE n = 0
      BY <1>4, <3>1
    <3>2. CASE n # 0
      <4>1. n \in 1..N
        BY <1>1, <3>2
      <4> HIDE DEF N
      <4> QED
        BY <1>5, <3>2, <4>1
    <3> QED
      BY <3>1, <3>2
  <2> HIDE DEF N
  <2>2. f = [n \in 0..N |-> E(n)]
    <3> HIDE DEF E
    <3> QED
      BY <1>4, <2>1
  <2> QED
    BY <2>2
<1>7. Rule(sum)
  <2> HIDE DEF Rule
  <2> QED
    BY <1>6
<1>8. sum[0] = 0 /\ \A k \in 1..N : sum[k] = sum[k - 1] + numbers[k]
  <2>1. sum = [n \in 0..N |-> IF n = 0 THEN 0 ELSE sum[n - 1] + numbers[n]]
    BY <1>7
  <2>2. 0 \in 0..N /\ \A k \in 1..N : k \in 0..N /\ k # 0
    BY <1>1
  <2> HIDE DEF sum, N
  <2> QED
    BY <2>1, <2>2
<1>9. sum[N] = f[N]
  <2>1. InStep(sum, f, N)
    <3> HIDE DEF sum, N
    <3> QED
      BY <1>5, <1>8 DEF InStep
  <2>2. N \in 0..N
    BY <1>1
  <2> HIDE DEF sum, N
  <2>3. N \in Nat /\ sum[0] = f[0]
    BY <1>1, <1>4, <1>8
  <2>4. \A k \in 0..N : sum[k] = f[k]
    BY <2>1, <2>3, GoOnAlike
  <2> QED
    BY <2>2, <2>4
<1>10. TotalOf(numbers) = sum[N]
  BY DEF TotalOf
<1> HIDE DEF sum
<1> QED
  BY <1>4, <1>5, <1>9, <1>10 DEF Adds

LEMMA TotalType ==
  ASSUME NEW numbers \in Seq(Nat)
  PROVE  TotalOf(numbers) \in Nat
<1>1. PICK f : Adds(f, numbers)
  BY TotalUnfolds
<1>2. Len(numbers) \in 0..Len(numbers)
  OBVIOUS
<1> QED
  BY <1>1, <1>2 DEF Adds

\* Less is `all` without its i-th number.
Shortened(less, all, i) ==
  /\ Len(less) = Len(all) - 1
  /\ \A k \in 1..Len(less) : less[k] = IF k < i THEN all[k] ELSE all[k + 1]

LEMMA TotalShortened ==
  ASSUME NEW all \in Seq(Nat), NEW less \in Seq(Nat), NEW i \in 1..Len(all),
         Shortened(less, all, i)
  PROVE  TotalOf(all) = TotalOf(less) + all[i]
<1>1. PICK f : Adds(f, all)
  BY TotalUnfolds
<1>2. PICK g : Adds(g, less)
  BY TotalUnfolds
<1>3. PICK N : N = Len(less)
  OBVIOUS
<1>4. /\ N \in Nat /\ Len(all) = N + 1 /\ i \in 1..(N + 1) /\ i - 1 \in 0..N
      /\ all[i] \in Nat
  BY <1>3 DEF Shortened
<1>5. \A k \in 1..N : less[k] = IF k < i THEN all[k] ELSE all[k + 1]
  BY <1>3 DEF Shortened
<1>6. /\ f[0] = 0 /\ \A k \in 1..(N + 1) : f[k] = f[k - 1] + all[k]
      /\ TotalOf(all) = f[N + 1] /\ \A k \in 0..(N + 1) : f[k] \in Nat
  BY <1>1, <1>4 DEF Adds
<1>7. /\ g[0] = 0 /\ \A k \in 1..N : g[k] = g[k - 1] + less[k]
      /\ TotalOf(less) = g[N] /\ \A k \in 0..N : g[k] \in Nat
  BY <1>2, <1>3 DEF Adds
<1>8. f[i - 1] = g[i - 1]
  <2>1. InStep(f, g, i - 1)
    <3> SUFFICES ASSUME NEW k \in 1..(i - 1), f[k - 1] = g[k - 1] PROVE f[k] = g[k]
      BY DEF InStep
    <3>1. k \in 1..N /\ k \in 1..(N + 1) /\ k < i
      BY <1>4
    <3>2. less[k] = all[k]
      BY <1>5, <3>1
    <3> QED
      BY <1>6, <1>7, <3>1, <3>2
  <2>2. i - 1 \in Nat /\ i - 1 \in 0..(i - 1)
    BY <1>4
  <2>3. f[0] = g[0]
    BY <1>6, <1>7
  <2> QED
    BY <2>1, <2>2, <2>3, GoOnAlike
<1> DEFINE T == {k \in Nat : k \in (i - 1)..N => f[k + 1] = g[k] + all[i]}
<1>9. \A k \in Nat : k \in T => k + 1 \in T
  <2> SUFFICES ASSUME NEW k \in Nat, k \in T, k + 1 \in (i - 1)..N
               PROVE  f[k + 2] = g[k + 1] + all[i]
    <3>1. \A k \in Nat : (k + 1) + 1 = k + 2 /\ k + 1 \in Nat
      OBVIOUS
    <3> QED
      BY <3>1
  <2>1. CASE k + 1 = i - 1
    <3>1. k + 2 = i /\ k + 2 \in 1..(N + 1) /\ (k + 2) - 1 = i - 1
      BY <1>4, <2>1
    <3>2. f[k + 2] = f[i - 1] + all[i]
      BY <1>6, <3>1
    <3> QED
      BY <1>8, <2>1, <3>2
  <2>2. CASE k + 1 # i - 1
    <3>1. k \in (i - 1)..N /\ k + 1 \in 1..N /\ k + 2 \in 1..(N + 1)
          /\ ~(k + 1 < i) /\ (k + 1) + 1 = k + 2 /\ (k + 2) - 1 = k + 1
          /\ (k + 1) - 1 = k /\ k \in 0..N
      BY <1>4, <2>2
    <3>2. f[k + 1] = g[k] + all[i]
      BY <3>1
    <3>3. less[k + 1] = all[k + 2]
      BY <1>5, <3>1
    <3>4. f[k + 2] = f[k + 1] + all[k + 2]
      BY <1>6, <3>1
    <3>5. g[k + 1] = g[k] + less[k + 1]
      BY <1>7, <3>1
    <3>6. g[k] \in Nat /\ all[k + 2] \in Nat /\ all[i] \in Nat
      BY <1>4, <1>7, <3>1
    <3> QED
      BY <3>2, <3>3, <3>4, <3>5, <3>6
  <2> QED
    BY <2>1, <2>2
<1>10. 0 \in T
  <2> SUFFICES ASSUME 0 \in (i - 1)..N PROVE f[1] = g[0] + all[i]
    OBVIOUS
  <2>1. i = 1 /\ 1 \in 1..(N + 1) /\ 1 - 1 = 0
    BY <1>4
  <2>2. f[1] = f[0] + all[1]
    BY <1>6, <2>1
  <2> QED
    BY <1>6, <1>7, <2>1, <2>2
<1>11. Nat \subseteq T
  <2> HIDE DEF T
  <2> QED
    BY <1>9, <1>10, SetInduction
<1>12. N \in (i - 1)..N
  BY <1>4
<1>13. f[N + 1] = g[N] + all[i]
  BY <1>4, <1>11, <1>12
<1> QED
  BY <1>6, <1>7, <1>13

LEMMA TotalAppend ==
  ASSUME NEW numbers \in Seq(Nat), NEW n \in Nat
  PROVE  TotalOf(Append(numbers, n)) = TotalOf(numbers) + n
<1> DEFINE all == Append(numbers, n)
           i == Len(numbers) + 1
<1>1. all \in Seq(Nat) /\ Len(all) = i /\ i \in 1..Len(all) /\ all[i] = n
      /\ Len(numbers) = Len(all) - 1
  OBVIOUS
<1>2. \A k \in 1..Len(numbers) : k < i /\ all[k] = numbers[k]
  OBVIOUS
<1>3. Shortened(numbers, all, i)
  BY <1>1, <1>2 DEF Shortened
<1> HIDE DEF all, i
<1>4. TotalOf(all) = TotalOf(numbers) + all[i]
  BY <1>1, <1>3, TotalShortened
<1> QED
  BY <1>1, <1>4 DEF all

\* The permutations of std::sort put the entries of a list in another order.
LEMMA PermutesArranges ==
  ASSUME NEW n \in Nat, NEW q, Permutes(q, 1..n)
  PROVE  Arranges(q, n)
BY SurjectionArranges DEF Permutes

\* The places before and behind j, without j.
Skip(q, j, k) == IF k < j THEN q[k] ELSE q[k + 1]

\* Without the entry that comes from the end of a.
LEMMA ArrangesFewer ==
  ASSUME NEW n \in Nat, NEW q, Arranges(q, n + 1), NEW j \in 1..(n + 1), q[j] = n + 1
  PROVE  Arranges([k \in 1..n |-> Skip(q, j, k)], n)
<1> DEFINE p == [k \in 1..n |-> Skip(q, j, k)]
           place(k) == IF k < j THEN k ELSE k + 1
<1>1. /\ \A i \in 1..(n + 1) : q[i] \in 1..(n + 1)
      /\ \A i \in 1..(n + 1), h \in 1..(n + 1) : q[i] = q[h] => i = h
      /\ \A k \in 1..(n + 1) : \E i \in 1..(n + 1) : q[i] = k
  BY DEF Arranges
<1>2. ASSUME NEW k \in 1..n
      PROVE  place(k) \in 1..(n + 1) /\ place(k) # j /\ p[k] = q[place(k)]
  BY DEF Skip
<1>3. ASSUME NEW k \in 1..n, NEW h \in 1..n, place(k) = place(h)
      PROVE  k = h
  <2>1. k \in Int /\ h \in Int /\ j \in Int
    OBVIOUS
  <2> QED
    BY <1>3, <2>1
<1>4. ASSUME NEW i \in 1..(n + 1), i # j
      PROVE  \E k \in 1..n : place(k) = i
  <2>1. CASE i < j
    <3>1. i \in 1..n /\ place(i) = i
      BY <2>1
    <3> HIDE DEF place
    <3> QED
      BY <3>1
  <2>2. CASE ~(i < j)
    <3>1. i - 1 \in 1..n /\ place(i - 1) = i
      BY <1>4, <2>2
    <3> HIDE DEF place
    <3> QED
      BY <3>1
  <2> QED
    BY <2>1, <2>2
<1> HIDE DEF p, place
<1>5. ASSUME NEW k \in 1..n PROVE p[k] \in 1..n
  <2>1. q[place(k)] \in 1..(n + 1) /\ q[place(k)] # n + 1
    BY <1>1, <1>2
  <2>2. \A x \in 1..(n + 1) : x # n + 1 => x \in 1..n
    OBVIOUS
  <2> QED
    BY <1>2, <2>1, <2>2
<1>6. p \in [1..n -> 1..n]
  BY <1>5 DEF p
<1>7. ASSUME NEW k \in 1..n, NEW h \in 1..n, p[k] = p[h] PROVE k = h
  <2>1. q[place(k)] = q[place(h)] /\ place(k) \in 1..(n + 1) /\ place(h) \in 1..(n + 1)
    BY <1>2, <1>7
  <2>2. place(k) = place(h)
    BY <1>1, <2>1
  <2> QED
    BY <1>3, <2>2
<1>8. ASSUME NEW v \in 1..n PROVE \E k \in 1..n : p[k] = v
  <2>1. v \in 1..(n + 1) /\ v # n + 1
    OBVIOUS
  <2>2. PICK i \in 1..(n + 1) : q[i] = v
    BY <1>1, <2>1
  <2>3. i # j
    BY <2>1, <2>2
  <2>4. PICK k \in 1..n : place(k) = i
    BY <1>4, <2>3
  <2> QED
    BY <1>2, <2>2, <2>4
<1> QED
  BY <1>6, <1>7, <1>8 DEF Arranges, p

\* b has the entries of a, in the order of q.
Rearranged(b, a, q) ==
  /\ Len(b) = Len(a)
  /\ Arranges(q, Len(a))
  /\ \A i \in 1..Len(a) : b[i] = a[q[i]]

LEMMA TotalRearranged ==
  ASSUME NEW a \in Seq(Nat), NEW b \in Seq(Nat), NEW q, Rearranged(b, a, q)
  PROVE  TotalOf(b) = TotalOf(a)
<1> DEFINE T == {n \in Nat : \A x \in Seq(Nat), y \in Seq(Nat) : \A r :
                   Len(x) = n /\ Rearranged(y, x, r) => TotalOf(y) = TotalOf(x)}
<1>1. 0 \in T
  <2> SUFFICES ASSUME NEW x \in Seq(Nat), NEW y \in Seq(Nat), NEW r,
                      Len(x) = 0, Rearranged(y, x, r)
               PROVE  TotalOf(y) = TotalOf(x)
    OBVIOUS
  <2>1. Len(y) = 0
    BY DEF Rearranged
  <2>2. x = y
    BY <2>1, SeqEqual
  <2> QED
    BY <2>2
<1>2. ASSUME NEW n \in Nat, n \in T PROVE n + 1 \in T
  <2> SUFFICES ASSUME NEW x \in Seq(Nat), NEW y \in Seq(Nat), NEW r,
                      Len(x) = n + 1, Rearranged(y, x, r)
               PROVE  TotalOf(y) = TotalOf(x)
    OBVIOUS
  <2>1. Len(y) = n + 1 /\ Arranges(r, n + 1) /\ \A i \in 1..(n + 1) : y[i] = x[r[i]]
    BY DEF Rearranged
  <2>2. n + 1 \in 1..(n + 1)
    OBVIOUS
  <2>3. PICK j \in 1..(n + 1) : r[j] = n + 1
    BY <2>1, <2>2 DEF Arranges
  <2> DEFINE xs == [k \in 1..n |-> x[k]]
             ys == [k \in 1..n |-> Skip(y, j, k)]
             rs == [k \in 1..n |-> Skip(r, j, k)]
  <2>4. Arranges(rs, n)
    BY <2>1, <2>3, ArrangesFewer
  <2>5. /\ \A k \in 1..(n + 1) : x[k] \in Nat /\ y[k] \in Nat
        /\ \A k \in 1..n : k \in 1..(n + 1) /\ k + 1 \in 1..(n + 1)
    BY <2>1, ElementOfSeq
  <2>6. xs \in Seq(Nat) /\ Len(xs) = n
    <3>1. xs \in [1..n -> Nat] /\ DOMAIN xs = 1..n
      BY <2>5
    <3> HIDE DEF xs
    <3>2. xs \in Seq(Nat)
      BY <3>1, SeqDef
    <3> QED
      BY <3>1, <3>2, LenProperties
  <2>7. ys \in Seq(Nat) /\ Len(ys) = n
    <3>1. ys \in [1..n -> Nat] /\ DOMAIN ys = 1..n
      BY <2>5 DEF Skip
    <3> HIDE DEF ys
    <3>2. ys \in Seq(Nat)
      BY <3>1, SeqDef
    <3> QED
      BY <3>1, <3>2, LenProperties
  <2>8. Rearranged(ys, xs, rs)
    <3> SUFFICES ASSUME NEW k \in 1..n PROVE ys[k] = xs[rs[k]]
      <4> HIDE DEF xs, ys, rs
      <4> QED
        BY <2>4, <2>6, <2>7 DEF Rearranged
    <3>1. rs[k] \in 1..n
      <4> HIDE DEF rs
      <4> QED
        BY <2>4 DEF Arranges
    <3>2. xs[rs[k]] = x[rs[k]]
      <4> HIDE DEF rs
      <4> QED
        BY <3>1
    <3>3. rs[k] = Skip(r, j, k) /\ ys[k] = Skip(y, j, k)
      OBVIOUS
    <3>4. Skip(y, j, k) = x[Skip(r, j, k)]
      BY <2>1, <2>5 DEF Skip
    <3> HIDE DEF xs, ys, rs
    <3> QED
      BY <3>2, <3>3, <3>4
  <2>9. Shortened(xs, x, n + 1)
    <3>1. \A k \in 1..n : k < n + 1 /\ xs[k] = x[k]
      OBVIOUS
    <3> HIDE DEF xs
    <3> QED
      BY <2>6, <3>1 DEF Shortened
  <2>10. Shortened(ys, y, j)
    <3>1. \A k \in 1..n : ys[k] = IF k < j THEN y[k] ELSE y[k + 1]
      BY DEF Skip
    <3> HIDE DEF ys
    <3> QED
      BY <2>1, <2>7, <3>1 DEF Shortened
  <2> HIDE DEF xs, ys, rs
  <2>11. TotalOf(ys) = TotalOf(xs)
    BY <1>2, <2>6, <2>7, <2>8
  <2>12. TotalOf(x) = TotalOf(xs) + x[n + 1]
    BY <2>2, <2>6, <2>9, TotalShortened
  <2>13. TotalOf(y) = TotalOf(ys) + y[j]
    BY <2>1, <2>7, <2>10, TotalShortened
  <2> QED
    BY <2>1, <2>3, <2>11, <2>12, <2>13
<1>3. Nat \subseteq T
  <2> HIDE DEF T
  <2> QED
    BY <1>1, <1>2, SetInduction
<1>4. Len(a) \in Nat
  OBVIOUS
<1> QED
  BY <1>3, <1>4

\* The sizes of a list.
CompressedSize(r) == IF r.csize = Unset THEN 0 ELSE r.csize

Measures(numbers, list) == numbers \in Seq(Nat) /\ Len(numbers) = Len(list)

LEMMA SizesFacts ==
  ASSUME NEW list \in Seq(Resources)
  PROVE  /\ Measures(Sizes(list), list)
         /\ Measures(CompressedSizes(list), list)
         /\ \A i \in 1..Len(list) : /\ Sizes(list)[i] = list[i].usize
                                  /\ CompressedSizes(list)[i] = CompressedSize(list[i])
<1>1. Len(list) \in Nat /\ DOMAIN list = 1..Len(list)
      /\ \A i \in 1..Len(list) : list[i] \in Resources
  BY LenProperties, ElementOfSeq
<1>2. \A r \in Resources : r.usize \in Nat /\ CompressedSize(r) \in Nat
  BY ResourcesAssumption, SizesAssumption DEF CompressedSize
<1>3. ASSUME NEW numbers, numbers \in [1..Len(list) -> Nat]
      PROVE  Measures(numbers, list)
  <2>1. numbers \in Seq(Nat) /\ DOMAIN numbers = 1..Len(list)
    BY <1>1, <1>3, SeqDef
  <2> QED
    BY <1>1, <2>1, LenProperties DEF Measures
<1>4. /\ Sizes(list) \in [1..Len(list) -> Nat]
      /\ \A i \in 1..Len(list) : Sizes(list)[i] = list[i].usize
  BY <1>1, <1>2 DEF Sizes
<1>5. CompressedSizes(list) = [i \in 1..Len(list) |-> CompressedSize(list[i])]
  BY <1>1 DEF CompressedSizes, CompressedSize
<1>6. /\ CompressedSizes(list) \in [1..Len(list) -> Nat]
      /\ \A i \in 1..Len(list) : CompressedSizes(list)[i] = CompressedSize(list[i])
  BY <1>1, <1>2, <1>5
<1> QED
  BY <1>3, <1>4, <1>6

\* One resource more.
LEMMA SizesAppend ==
  ASSUME NEW list \in Seq(Resources), NEW r \in Resources
  PROVE  /\ TotalOf(Sizes(Append(list, r))) = TotalOf(Sizes(list)) + r.usize
         /\ TotalOf(CompressedSizes(Append(list, r)))
              = TotalOf(CompressedSizes(list)) + CompressedSize(r)
<1>1. PICK more : more = Append(list, r)
  OBVIOUS
<1>2. PICK n : n = Len(list)
  OBVIOUS
<1>3. /\ n \in Nat /\ more \in Seq(Resources) /\ Len(more) = n + 1
      /\ more[n + 1] = r /\ \A i \in 1..n : more[i] = list[i]
  BY <1>1, <1>2
<1>4. r.usize \in Nat /\ CompressedSize(r) \in Nat
  BY ResourcesAssumption, SizesAssumption DEF CompressedSize
<1>5. /\ Sizes(list) \in Seq(Nat) /\ Len(Sizes(list)) = n
      /\ CompressedSizes(list) \in Seq(Nat) /\ Len(CompressedSizes(list)) = n
      /\ \A i \in 1..n : /\ Sizes(list)[i] = list[i].usize
                        /\ CompressedSizes(list)[i] = CompressedSize(list[i])
  BY <1>2, SizesFacts DEF Measures
<1>6. /\ Sizes(more) \in Seq(Nat) /\ Len(Sizes(more)) = n + 1
      /\ CompressedSizes(more) \in Seq(Nat) /\ Len(CompressedSizes(more)) = n + 1
      /\ \A i \in 1..(n + 1) : /\ Sizes(more)[i] = more[i].usize
                              /\ CompressedSizes(more)[i] = CompressedSize(more[i])
  BY <1>3, SizesFacts DEF Measures
<1>7. ASSUME NEW a \in Seq(Nat), NEW b \in Seq(Nat), NEW x \in Nat,
             Len(a) = n, Len(b) = n + 1, b[n + 1] = x, \A i \in 1..n : b[i] = a[i]
      PROVE  b = Append(a, x)
  <2>1. Append(a, x) \in Seq(Nat) /\ Len(Append(a, x)) = n + 1
    BY <1>7
  <2>2. \A i \in 1..(n + 1) : Append(a, x)[i] = b[i]
    BY <1>3, <1>7
  <2> QED
    BY <1>7, <2>1, <2>2, SeqEqual
<1>8. n + 1 \in 1..(n + 1) /\ \A i \in 1..n : i \in 1..(n + 1)
  BY <1>3
<1>9. Sizes(more) = Append(Sizes(list), r.usize)
  <2>1. Sizes(more)[n + 1] = r.usize
    BY <1>3, <1>6, <1>8
  <2>2. \A i \in 1..n : Sizes(more)[i] = Sizes(list)[i]
    BY <1>3, <1>5, <1>6, <1>8
  <2> QED
    BY <1>4, <1>5, <1>6, <1>7, <2>1, <2>2
<1>10. CompressedSizes(more) = Append(CompressedSizes(list), CompressedSize(r))
  <2>1. CompressedSizes(more)[n + 1] = CompressedSize(r)
    BY <1>3, <1>6, <1>8
  <2>2. \A i \in 1..n : CompressedSizes(more)[i] = CompressedSizes(list)[i]
    BY <1>3, <1>5, <1>6, <1>8
  <2> QED
    BY <1>4, <1>5, <1>6, <1>7, <2>1, <2>2
<1> QED
  BY <1>1, <1>4, <1>5, <1>9, <1>10, TotalAppend

\* One resource less.
LEMMA SizesRemoveAt ==
  ASSUME NEW list \in Seq(Resources), NEW i \in DOMAIN list
  PROVE  LET less == RemoveAt(list, i)
         IN  /\ TotalOf(Sizes(list)) = TotalOf(Sizes(less)) + list[i].usize
             /\ TotalOf(CompressedSizes(list))
                  = TotalOf(CompressedSizes(less)) + CompressedSize(list[i])
<1>1. PICK less : less = RemoveAt(list, i)
  OBVIOUS
<1>2. PICK n : n = Len(list)
  OBVIOUS
<1>3. /\ n \in Nat /\ i \in 1..n /\ less \in Seq(Resources) /\ Len(less) = n - 1
      /\ \A k \in 1..(n - 1) : less[k] = IF k < i THEN list[k] ELSE list[k + 1]
  BY <1>1, <1>2, RemoveAtProperties, LenProperties
<1>4. /\ Sizes(list) \in Seq(Nat) /\ Len(Sizes(list)) = n
      /\ CompressedSizes(list) \in Seq(Nat) /\ Len(CompressedSizes(list)) = n
      /\ \A k \in 1..n : /\ Sizes(list)[k] = list[k].usize
                        /\ CompressedSizes(list)[k] = CompressedSize(list[k])
  BY <1>2, SizesFacts DEF Measures
<1>5. /\ Sizes(less) \in Seq(Nat) /\ Len(Sizes(less)) = n - 1
      /\ CompressedSizes(less) \in Seq(Nat) /\ Len(CompressedSizes(less)) = n - 1
      /\ \A k \in 1..(n - 1) : /\ Sizes(less)[k] = less[k].usize
                              /\ CompressedSizes(less)[k] = CompressedSize(less[k])
  BY <1>3, SizesFacts DEF Measures
<1>6. \A k \in 1..(n - 1) : k \in 1..n /\ k + 1 \in 1..n
  BY <1>3
<1>7. Shortened(Sizes(less), Sizes(list), i)
  <2>1. \A k \in 1..(n - 1) : Sizes(less)[k] = IF k < i THEN Sizes(list)[k]
                                              ELSE Sizes(list)[k + 1]
    BY <1>3, <1>4, <1>5, <1>6
  <2> QED
    BY <1>4, <1>5, <2>1 DEF Shortened
<1>8. Shortened(CompressedSizes(less), CompressedSizes(list), i)
  <2>1. \A k \in 1..(n - 1) :
          CompressedSizes(less)[k] = IF k < i THEN CompressedSizes(list)[k]
                                     ELSE CompressedSizes(list)[k + 1]
    BY <1>3, <1>4, <1>5, <1>6
  <2> QED
    BY <1>4, <1>5, <2>1 DEF Shortened
<1>9. TotalOf(Sizes(list)) = TotalOf(Sizes(less)) + Sizes(list)[i]
  BY <1>3, <1>4, <1>5, <1>7, TotalShortened
<1>10. TotalOf(CompressedSizes(list))
         = TotalOf(CompressedSizes(less)) + CompressedSizes(list)[i]
  BY <1>3, <1>4, <1>5, <1>8, TotalShortened
<1> QED
  BY <1>1, <1>3, <1>4, <1>9, <1>10

\* The same resources in another order.
LEMMA SizesSorted ==
  ASSUME NEW list \in Seq(Resources), NEW sorted \in SortedLists(list)
  PROVE  /\ TotalOf(Sizes(sorted)) = TotalOf(Sizes(list))
         /\ TotalOf(CompressedSizes(sorted)) = TotalOf(CompressedSizes(list))
<1>1. PICK n : n = Len(list)
  OBVIOUS
<1>2. n \in Nat /\ DOMAIN list = 1..n
  BY <1>1, LenProperties
<1>3. PICK q : Permutes(q, 1..n) /\ sorted = [i \in 1..n |-> list[q[i]]]
  BY <1>2 DEF SortedLists
<1>4. Arranges(q, n)
  BY <1>2, <1>3, PermutesArranges
<1>5. sorted \in Seq(Resources) /\ Len(sorted) = n
  BY <1>1, SortedListsProperties
<1>6. \A i \in 1..n : q[i] \in 1..n /\ sorted[i] = list[q[i]]
  BY <1>3, <1>4 DEF Arranges
<1>7. /\ Sizes(list) \in Seq(Nat) /\ Len(Sizes(list)) = n
      /\ CompressedSizes(list) \in Seq(Nat) /\ Len(CompressedSizes(list)) = n
      /\ \A k \in 1..n : /\ Sizes(list)[k] = list[k].usize
                        /\ CompressedSizes(list)[k] = CompressedSize(list[k])
  BY <1>1, SizesFacts DEF Measures
<1>8. /\ Sizes(sorted) \in Seq(Nat) /\ Len(Sizes(sorted)) = n
      /\ CompressedSizes(sorted) \in Seq(Nat) /\ Len(CompressedSizes(sorted)) = n
      /\ \A k \in 1..n : /\ Sizes(sorted)[k] = sorted[k].usize
                        /\ CompressedSizes(sorted)[k] = CompressedSize(sorted[k])
  BY <1>5, SizesFacts DEF Measures
<1>9. Rearranged(Sizes(sorted), Sizes(list), q)
  <2>1. ASSUME NEW k \in 1..n PROVE Sizes(sorted)[k] = Sizes(list)[q[k]]
    <3>1. PICK j \in 1..n : j = q[k]
      BY <1>6
    <3>2. sorted[k] = list[j]
      BY <1>6, <3>1
    <3> QED
      BY <1>7, <1>8, <3>1, <3>2
  <2> QED
    BY <1>4, <1>7, <1>8, <2>1 DEF Rearranged
<1>10. Rearranged(CompressedSizes(sorted), CompressedSizes(list), q)
  <2>1. ASSUME NEW k \in 1..n PROVE CompressedSizes(sorted)[k] = CompressedSizes(list)[q[k]]
    <3>1. PICK j \in 1..n : j = q[k]
      BY <1>6
    <3>2. sorted[k] = list[j]
      BY <1>6, <3>1
    <3> QED
      BY <1>7, <1>8, <3>1, <3>2
  <2> QED
    BY <1>4, <1>7, <1>8, <2>1 DEF Rearranged
<1> QED
  BY <1>7, <1>8, <1>9, <1>10, TotalRearranged
--------------------------------------------------------------------------
(* Wrapping arithmetic is arithmetic modulo the width.                     *)

Width == MaxUint + 1

LEMMA PlusWraps ==
  ASSUME NEW n \in Nat, NEW u \in Uint
  PROVE  Plus(n % Width, u) = (n + u) % Width
<1>1. Width \in Nat \ {0} /\ n \in Int /\ n + u \in Int /\ u \in 0..(Width - 1)
  BY SizesAssumption DEF Width, Uint
<1>2. PICK q \in Int : n = Width * q + (n % Width) /\ n % Width \in 0..(Width - 1)
  BY <1>1, Division
<1>3. PICK r \in 0..(Width - 1) : r = n % Width
  BY <1>2
<1>4. Width * q \in Int /\ Width * (q + 1) = Width * q + Width
  BY <1>1
<1>5. CASE r + u > MaxUint
  <2>1. Plus(r, u) = r + u - Width
    BY <1>5, SizesAssumption DEF Plus, Uint, Width
  <2>2. r + u - Width \in 0..(Width - 1)
    BY <1>1, <1>5, SizesAssumption DEF Width
  <2>3. n + u = Width * (q + 1) + (r + u - Width)
    BY <1>1, <1>2, <1>3, <1>4
  <2>4. (n + u) % Width = r + u - Width
    BY <1>1, <2>2, <2>3, q + 1 \in Int, Remainder
  <2> QED
    BY <1>3, <2>1, <2>4
<1>6. CASE ~(r + u > MaxUint)
  <2>1. Plus(r, u) = r + u
    BY <1>6 DEF Plus
  <2>2. r + u \in 0..(Width - 1)
    BY <1>1, <1>6, SizesAssumption DEF Width
  <2>3. n + u = Width * q + (r + u)
    <3>1. n = Width * q + r /\ u \in Int
      BY <1>1, <1>2, <1>3
    <3>2. PICK w \in Int : w = Width * q
      BY <1>4
    <3> QED
      BY <3>1, <3>2
  <2>4. (n + u) % Width = r + u
    BY <1>1, <2>2, <2>3, Remainder
  <2> QED
    BY <1>3, <2>1, <2>4
<1> QED
  BY <1>5, <1>6

LEMMA MinusWraps ==
  ASSUME NEW n \in Nat, NEW u \in Uint
  PROVE  Minus((n + u) % Width, u) = n % Width
<1>1. Width \in Nat \ {0} /\ n \in Int /\ n + u \in Int /\ u \in 0..(Width - 1)
  BY SizesAssumption DEF Width, Uint
<1>2. PICK q \in Int : n + u = Width * q + ((n + u) % Width)
                      /\ (n + u) % Width \in 0..(Width - 1)
  BY <1>1, Division
<1>3. PICK r \in 0..(Width - 1) : r = (n + u) % Width
  BY <1>2
<1>4. Width * q \in Int /\ Width * (q - 1) = Width * q - Width
  BY <1>1
<1>5. CASE r < u
  <2>1. Minus(r, u) = r + Width - u
    BY <1>5, SizesAssumption DEF Minus, Uint, Width
  <2>2. r + Width - u \in 0..(Width - 1)
    BY <1>1, <1>5
  <2>3. n = Width * (q - 1) + (r + Width - u)
    BY <1>1, <1>2, <1>3, <1>4
  <2>4. n % Width = r + Width - u
    BY <1>1, <2>2, <2>3, q - 1 \in Int, Remainder
  <2> QED
    BY <1>3, <2>1, <2>4
<1>6. CASE ~(r < u)
  <2>1. Minus(r, u) = r - u
    BY <1>6 DEF Minus
  <2>2. r - u \in 0..(Width - 1)
    BY <1>1, <1>6
  <2>3. n = Width * q + (r - u)
    BY <1>1, <1>2, <1>3, <1>4
  <2>4. n % Width = r - u
    BY <1>1, <2>2, <2>3, Remainder
  <2> QED
    BY <1>3, <2>1, <2>4
<1> QED
  BY <1>5, <1>6
--------------------------------------------------------------------------
\* The totals of one group.
Totalled(g) ==
  g.totalC # Unset =>
    /\ g.total = TotalOf(Sizes(g.items)) % Width
    /\ g.totalC = TotalOf(CompressedSizes(g.items)) % Width

LEMMA TotalsOfGroups == TotalsExact <=> \A g \in Groups : Totalled(groups[g])
BY DEF TotalsExact, Totalled, Width

LEMMA OneGroupTotalled ==
  ASSUME TypeOK, TotalsExact, NEW t \in Groups, NEW g, Totalled(g),
         groups' = [groups EXCEPT ![t] = g]
  PROVE  TotalsExact'
<1> SUFFICES ASSUME NEW h \in Groups PROVE Totalled(groups'[h])
  BY DEF TotalsExact, Totalled, Width
<1>1. groups'[h] = IF h = t THEN g ELSE groups[h]
  BY DEF TypeOK
<1>2. Totalled(groups[h])
  BY TotalsOfGroups
<1> QED
  BY <1>1, <1>2

LEMMA SameGroupsTotalled ==
  ASSUME TotalsExact, UNCHANGED groups
  PROVE  TotalsExact'
BY DEF TotalsExact

LEMMA AddTotalled ==
  ASSUME NEW g \in Group, NEW r \in Resources, Totalled(g)
  PROVE  Totalled(AddResource(g, r))
<1> DEFINE added == AddResource(g, r)
<1> SUFFICES ASSUME added.totalC # Unset
             PROVE  /\ added.total = TotalOf(Sizes(added.items)) % Width
                    /\ added.totalC = TotalOf(CompressedSizes(added.items)) % Width
  BY DEF Totalled
<1>1. /\ added.items = Append(g.items, r)
      /\ added.total = Plus(g.total, r.usize)
      /\ added.totalC = IF Unset \in {g.totalC, r.csize} THEN g.totalC
                        ELSE Plus(g.totalC, r.csize)
  BY DEF AddResource, Group
<1>2. g.items \in Seq(Resources) /\ r.usize \in Uint /\ r.csize \in Uint \cup {Unset}
  BY ResourceType DEF Group
<1> HIDE DEF added
<1>3. g.totalC # Unset
  BY <1>1
<1>4. PICK m \in Nat : m = TotalOf(Sizes(g.items))
  BY <1>2, SizesFacts, TotalType DEF Measures
<1>5. PICK n \in Nat : n = TotalOf(CompressedSizes(g.items))
  BY <1>2, SizesFacts, TotalType DEF Measures
<1>6. g.total = m % Width /\ g.totalC = n % Width
  BY <1>3, <1>4, <1>5 DEF Totalled
<1>7. /\ TotalOf(Sizes(added.items)) = m + r.usize
      /\ TotalOf(CompressedSizes(added.items)) = n + CompressedSize(r)
  BY <1>1, <1>2, <1>4, <1>5, SizesAppend
<1>8. added.total = (m + r.usize) % Width
  BY <1>1, <1>2, <1>6, PlusWraps
<1>9. added.totalC = (n + CompressedSize(r)) % Width
  <2>1. CASE r.csize = Unset
    BY <1>1, <1>6, <2>1 DEF CompressedSize
  <2>2. CASE r.csize # Unset
    <3>1. added.totalC = Plus(n % Width, r.csize) /\ CompressedSize(r) = r.csize
      BY <1>1, <1>3, <1>6, <2>2 DEF CompressedSize
    <3> QED
      BY <1>2, <2>2, <3>1, PlusWraps
  <2> QED
    BY <2>1, <2>2
<1> QED
  BY <1>7, <1>8, <1>9

LEMMA WithoutTotalled ==
  ASSUME NEW g \in Group, NEW i \in DOMAIN g.items, Totalled(g),
         g.totalC # Unset, g.items[i].csize # Unset
  PROVE  Totalled(Without(g, i))
<1>1. g.items \in Seq(Resources) /\ g.items[i] \in Resources
  BY LenProperties, ElementOfSeq DEF Group
<1>2. PICK less : less = RemoveAt(g.items, i)
  OBVIOUS
<1>3. less \in Seq(Resources)
  BY <1>1, <1>2, RemoveAtProperties
<1>4. PICK m \in Nat : m = TotalOf(Sizes(less))
  BY <1>3, SizesFacts, TotalType DEF Measures
<1>5. PICK n \in Nat : n = TotalOf(CompressedSizes(less))
  BY <1>3, SizesFacts, TotalType DEF Measures
<1>6. PICK u \in Uint : u = g.items[i].usize
  BY <1>1, ResourceType
<1>7. PICK c \in Uint : c = g.items[i].csize /\ c = CompressedSize(g.items[i])
  BY <1>1, ResourceType DEF CompressedSize
<1>8. g.total = (m + u) % Width /\ g.totalC = (n + c) % Width
  BY <1>1, <1>2, <1>4, <1>5, <1>6, <1>7, SizesRemoveAt DEF Totalled
<1>9. /\ Without(g, i).items = less
      /\ Without(g, i).total = Minus(g.total, u)
      /\ Without(g, i).totalC = Minus(g.totalC, c)
  BY <1>2, <1>6, <1>7 DEF Without, Group
<1>10. Without(g, i).total = m % Width /\ Without(g, i).totalC = n % Width
  BY <1>8, <1>9, MinusWraps
<1> QED
  BY <1>4, <1>5, <1>9, <1>10 DEF Totalled

\* What keeps a group totalled: its list and its totals, or its list, one
\* total and a compressed total that holds no value.
LEMMA SameTotalled ==
  ASSUME NEW g, NEW h, Totalled(g),
         \/ h.totalC = Unset
         \/ h.items = g.items /\ h.total = g.total /\ h.totalC = g.totalC
  PROVE  Totalled(h)
BY DEF Totalled

LEMMA FreshTotalled == Totalled(Fresh)
<1>1. <<>> \in Seq(Resources) /\ Len(<<>>) = 0
  BY EmptySeq
<1>2. PICK a : a = Sizes(<<>>)
  OBVIOUS
<1>3. PICK b : b = CompressedSizes(<<>>)
  OBVIOUS
<1>4. a \in Seq(Nat) /\ Len(a) = 0 /\ b \in Seq(Nat) /\ Len(b) = 0
  BY <1>1, <1>2, <1>3, SizesFacts DEF Measures
<1>5. PICK f : Adds(f, a)
  BY <1>4, TotalUnfolds
<1>6. PICK g : Adds(g, b)
  BY <1>4, TotalUnfolds
<1>7. TotalOf(a) = 0 /\ TotalOf(b) = 0
  BY <1>4, <1>5, <1>6 DEF Adds
<1>8. 0 % Width = 0
  BY SizesAssumption DEF Width
<1> QED
  BY <1>2, <1>3, <1>7, <1>8 DEF Totalled, Fresh

LEMMA InitTotals == Init => TotalsExact
BY FreshTotalled, TotalsOfGroups DEF Init

\* One step per action.
LEMMA NextTotals == TypeOK /\ TotalsExact /\ [Next]_vars => TotalsExact'
<1> SUFFICES ASSUME TypeOK, TotalsExact, [Next]_vars PROVE TotalsExact'
  OBVIOUS
<1>g. \A g \in Groups : groups[g] \in Group /\ Totalled(groups[g])
  BY TotalsOfGroups DEF TypeOK
<1>0. CASE UNCHANGED vars
  BY <1>0, SameGroupsTotalled DEF vars
<1>1. ASSUME NEW t \in Groups, NewGroup(t) PROVE TotalsExact'
  BY <1>1, FreshTotalled, OneGroupTotalled DEF NewGroup
<1>2. ASSUME NEW t \in Groups, NEW calc \in BOOLEAN, CreateFromDirectory(t, calc)
      PROVE TotalsExact'
  BY <1>2, SameGroupsTotalled DEF CreateFromDirectory
<1>3. ASSUME NEW t \in Groups, NEW d \in YamlFiles, ImportFromYaml(t, d)
      PROVE TotalsExact'
  <2> DEFINE typed  == [groups[t] EXCEPT !.type = d.type]
             dated  == [typed EXCEPT !.version = d.version]
             header == IF "TotalResourcesSizeCompressed" \in d.fields THEN dated
                       ELSE [dated EXCEPT !.totalC = Unset]
  <2>1. \A g \in {typed, dated, header} :
          \/ g.totalC = Unset
          \/ /\ g.items = groups[t].items /\ g.total = groups[t].total
             /\ g.totalC = groups[t].totalC
    BY <1>g DEF Group
  <2>2. \E g \in {groups[t], typed, dated, header} : groups' = [groups EXCEPT ![t] = g]
    BY <1>3 DEF ImportFromYaml
  <2> HIDE DEF typed, dated, header
  <2>3. \A g \in {groups[t], typed, dated, header} : Totalled(g)
    BY <1>g, <2>1, SameTotalled
  <2> QED
    BY <2>2, <2>3, OneGroupTotalled
<1>4. ASSUME NEW t \in Groups, ImportFromCSV(t) PROVE TotalsExact'
  BY <1>4, SameGroupsTotalled DEF ImportFromCSV
<1>5. ASSUME NEW t \in Groups, NEW this \in Groups, NEW other \in Groups,
             Merge(this, other, t)
      PROVE TotalsExact'
  BY <1>5, SameGroupsTotalled DEF Merge
<1>6. ASSUME NEW t \in Groups, NEW err \in BOOLEAN, RemoveResources(t, err)
      PROVE TotalsExact'
  BY <1>6, SameGroupsTotalled DEF RemoveResources
<1>7. ASSUME NEW t \in Groups, ExportCsv(t) PROVE TotalsExact'
  <2>1. PICK list \in SortedLists(groups[t].items) :
          groups' = [groups EXCEPT ![t].items = list]
    BY <1>7 DEF ExportCsv
  <2>2. groups[t].items \in Seq(Resources)
    BY <1>g DEF Group
  <2>3. PICK g : g = [groups[t] EXCEPT !.items = list]
    OBVIOUS
  <2>4. g.items = list /\ g.total = groups[t].total /\ g.totalC = groups[t].totalC
    BY <1>g, <2>3 DEF Group
  <2>5. Totalled(g)
    BY <1>g, <2>2, <2>4, SizesSorted DEF Totalled
  <2> QED
    BY <2>1, <2>3, <2>5, OneGroupTotalled
<1>8. ASSUME NEW t \in Groups, AddNext(t) PROVE TotalsExact'
  <2>1. PICK up : up = Upgraded(groups[t])
    OBVIOUS
  <2>2. PICK r : r = Head(call.pending)
    OBVIOUS
  <2>3. r \in Resources
    BY <1>8, <2>2, PendingType DEF AddNext, AddingCalls
  <2>4. up \in Group /\ up.items = groups[t].items /\ up.totalC = groups[t].totalC
        /\ up.total = groups[t].total
    BY <1>g, <2>1, UpgradedType DEF Upgraded, Group
  <2>5. Totalled(AddResource(up, r))
    BY <1>g, <2>3, <2>4, SameTotalled, AddTotalled
  <2>6. groups' = [groups EXCEPT ![t] = AddResource(up, r)]
    BY <1>8, <2>1, <2>2 DEF AddNext
  <2> QED
    BY <2>5, <2>6, OneGroupTotalled
<1>9. ASSUME NEW t \in Groups, RejectEntry(t) \/ RejectCopy(t) \/ DirectoryFails(t)
      PROVE TotalsExact'
  BY <1>9, SameGroupsTotalled DEF RejectEntry, RejectCopy, DirectoryFails
<1>10. ASSUME NEW t \in Groups, FinishAdding(t) PROVE TotalsExact'
  <2>1. Totalled([groups[t] EXCEPT !.totalC = Unset])
    BY <1>g DEF Totalled, Group
  <2> QED
    BY <1>10, <2>1, OneGroupTotalled, SameGroupsTotalled DEF FinishAdding
<1>11. ASSUME NEW t \in Groups, RemoveMissing(t) PROVE TotalsExact'
  BY <1>11, SameGroupsTotalled DEF RemoveMissing
<1>12. ASSUME NEW t \in Groups, RemoveFound(t) PROVE TotalsExact'
  <2>1. PICK i \in DOMAIN groups[t].items :
          /\ groups[t].items[i].csize # Unset
          /\ groups[t].totalC # Unset
          /\ groups' = [groups EXCEPT ![t] = Without(@, i)]
    BY <1>12 DEF RemoveFound
  <2> QED
    BY <1>g, <2>1, WithoutTotalled, OneGroupTotalled
<1>13. ASSUME NEW t \in Groups, RemoveUncompressed(t) PROVE TotalsExact'
  <2>1. PICK g : g = [groups[t] EXCEPT !.number = Minus(@, 1)]
    OBVIOUS
  <2>2. g.items = groups[t].items /\ g.total = groups[t].total
        /\ g.totalC = groups[t].totalC
    BY <1>g, <2>1 DEF Group
  <2>3. Totalled(g)
    BY <1>g, <2>2, SameTotalled
  <2> QED
    BY <1>13, <2>1, <2>3, OneGroupTotalled DEF RemoveUncompressed
<1>14. ASSUME NEW t \in Groups, RemoveThrows(t) PROVE TotalsExact'
  <2>1. PICK i \in DOMAIN groups[t].items :
          groups' = [groups EXCEPT
                       ![t].number = Minus(@, 1),
                       ![t].total = Minus(@, groups[t].items[i].usize)]
    BY <1>14 DEF RemoveThrows
  <2> DEFINE g == [groups[t] EXCEPT
                     !.number = Minus(@, 1),
                     !.total = Minus(@, groups[t].items[i].usize)]
  <2>2. groups' = [groups EXCEPT ![t] = g]
    BY <1>g, <2>1 DEF TypeOK
  <2>3. g.totalC = Unset
    BY <1>14, <1>g DEF RemoveThrows, Group
  <2>4. Totalled(g)
    BY <2>3 DEF Totalled
  <2> HIDE DEF g
  <2> QED
    BY <2>2, <2>4, OneGroupTotalled
<1>15. ASSUME NEW t \in Groups, FinishRemoving(t) PROVE TotalsExact'
  BY <1>15, SameGroupsTotalled DEF FinishRemoving
<1> QED
  BY <1>0, <1>1, <1>2, <1>3, <1>4, <1>5, <1>6, <1>7, <1>8, <1>9, <1>10, <1>11,
     <1>12, <1>13, <1>14, <1>15 DEF Next

\* The two totals, kept by wrapping additions and subtractions, are the sums
\* over the list whenever the compressed total holds a value, whatever calls
\* failed half way before.
THEOREM TotalsCorrect == Spec => []TotalsExact
BY TypeCorrect, InitTotals, NextTotals, PTL DEF Spec
==========================================================================

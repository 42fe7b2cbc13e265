---------------------------- MODULE StatusJobs ----------------------------
(***************************************************************************)
(* What the operations of the library tell a StatusSettings, in order: a   *)
(* job is a sequence of updates, some of which hand a part of the job to a *)
(* nested one.  Progress and size are percentages of the job.              *)
(*                                                                         *)
(* counts has the numbers the loops run over: latest resources in the      *)
(* group of the call, of which changed and added ones differ from the      *)
(* other group; removed ones of the other group; patches; and files, a     *)
(* list that says of every file whether it is streamed.  100.0 / n is      *)
(* exact for the numbers that are used; that floats round is left out.     *)
(***************************************************************************)
EXTENDS Integers, SequencesExt

CONSTANTS
  NotFinite,      \* a float that is not a number, or infinite
  NoJob

ASSUME NotFiniteAssumption == NotFinite \notin Int

CountsOfCalls ==
  [latest : Nat, added : Nat, changed : Nat, removed : Nat, patches : Nat,
   files : Seq(BOOLEAN)]

Update(type, progress, size) ==
  [type |-> type, progress |-> progress, size |-> size, nested |-> NoJob,
   guarded |-> FALSE, up |-> 0]

Part(progress, size) == Update("PERCENTAGE", progress, size)

Nested(progress, size, job) == [Part(progress, size) EXCEPT !.nested = job]

Warning == Update("WARNING", 0, 0)

\* Sent on the StatusSettings of the job this one is nested in.
WarningOnParent == [Warning EXCEPT !.up = 1]

\* n turns of a loop, each of which is worth 100.0 / of; the update is
\* guarded by RequiresStatusUpdates.
Turn(i, of) ==
  IF of = 0 THEN [Part(NotFinite, NotFinite) EXCEPT !.guarded = TRUE]
  ELSE [Part((i - 1) * (100 \div of), 100 \div of) EXCEPT !.guarded = TRUE]

Turns(n, of) == [i \in 1..n |-> Turn(i, of)]
---------------------------------------------------------------------------
ImportFromFile == <<Part(0, 20), Nested(20, 80, "yaml")>>

ImportFromCsvFile == <<Part(0, 20), Nested(20, 80, "csv")>>

\* The warning is about a document of a later version.
ImportFromYaml(list) == <<Part(0, 30), Warning, Nested(30, 70, list)>>

ImportFromCSV == <<Part(0, 10), Nested(10, 90, "lines")>>

\* A number of updates that is not known beforehand.
ImportedLines(counts) == [i \in 1..counts.latest |-> Update("UNBOUNDED", 0, 0)]

CreateResourceGroupFromYamlString ==
  <<Part(0, 30), Nested(30, 70, "yaml")>>

ExportToFile == <<Part(0, 10), Nested(10, 90, "export")>>

ExportToCsvFile == <<Part(0, 10), Nested(10, 90, "exportCsv")>>

ExportYaml(list) == <<Part(0, 20), Nested(20, 80, list)>>

ExportCsv == <<Part(0, 10), Nested(10, 90, "resources")>>

Resources(counts) == Turns(counts.latest, counts.latest)

CreateFromDirectory == <<Part(0, 10), Nested(10, 90, "files")>>

\* Every file is announced; one that is streamed says how far it is, here
\* for a file of 100 bytes in two pieces, and begins at 0 again.
ProcessedFiles(counts) ==
  FlattenSeq([i \in DOMAIN counts.files |->
    <<Update("UNBOUNDED", 0, 0)>>
      \o IF counts.files[i]
         THEN <<[Part(0, 1) EXCEPT !.guarded = TRUE],
                [Part(50, 1) EXCEPT !.guarded = TRUE]>>
         ELSE <<>>])

Merge == <<Part(0, 20), Nested(20, 80, "union")>>

MergedResources(counts) ==
  LET n == counts.latest + counts.removed IN Turns(n, n)

RemoveResources == <<Part(0, 5), Nested(5, 95, "removals")>>

RemovedResources(counts) == Turns(counts.removed, counts.removed)

\* A plausible slip: the removed resources begin where the added ones do.
DiffOverlapping ==
  <<Part(0, 20), Nested(20, 20, "common"), Nested(40, 20, "added"),
    Nested(50, 50, "removed")>>

\* Its three loops all divide by the number of latest resources.
Diff ==
  <<Part(0, 20), Nested(20, 20, "common"), Nested(40, 20, "added"),
    Nested(60, 40, "removed")>>

CommonResources(counts) == Turns(counts.latest - counts.added, counts.latest)

AddedResources(counts) == Turns(counts.added, counts.latest)

RemovedByDiff(counts) == Turns(counts.removed, counts.latest)

DiffChangesAsLists ==
  <<Part(0, 20), Nested(20, 60, "diff"), Nested(80, 10, "removals"),
    Nested(90, 10, "changes")>>

Changes(counts) ==
  LET n == counts.changed + counts.added IN Turns(n, n)

CreatePatch ==
  <<Part(0, 20), Nested(20, 20, "diff"), Nested(40, 20, "patches"),
    Nested(60, 20, "exportChanges"), Nested(80, 20, "exportPatches")>>

\* A warning follows when the index of a changed file cannot be made.
GeneratedPatches(counts) ==
  FlattenSeq([i \in 1..(counts.changed + counts.added) |->
    <<Turn(i, counts.changed + counts.added)>>
      \o IF i <= counts.changed THEN <<Warning>> ELSE <<>>])

Patches(counts) == Turns(counts.patches, counts.patches)

\* The group of the package holds what has changed or is new.
Apply ==
  <<Part(0, 10), Nested(10, 10, "importChanges"), Nested(20, 70, "changes"),
    Nested(90, 10, "removing")>>

\* The turns are not counted: every one begins at 0.
RemovedFiles(counts) ==
  FlattenSeq([i \in 1..counts.removed |->
    <<Turn(1, counts.removed), WarningOnParent>>])

CreateBundle ==
  <<Part(0, 5), Part(5, 40), Nested(45, 35, "resources"),
    Nested(80, 10, "export"), Nested(90, 10, "exportChunks")>>

Unpack ==
  <<Part(0, 20), Nested(20, 20, "group"), Nested(40, 40, "rebuilding"),
    Nested(80, 20, "ExportToFile")>>

\* What is sent as the size is the progress times the number of resources.
RebuiltResources(counts) ==
  [i \in 1..counts.latest |->
     [Turn(i, counts.latest) EXCEPT !.size = 100 * (i - 1)]]
---------------------------------------------------------------------------
\* The operations a caller can ask for, and the jobs they are made of.
Operations ==
  {"ImportFromFile", "ImportFromCsvFile", "ExportToFile", "ExportToCsvFile",
   "CreateFromDirectory", "Merge", "RemoveResources", "DiffChangesAsLists",
   "CreatePatch", "Apply", "CreateBundle", "Unpack"}

Steps(job, counts) ==
  CASE job = "ImportFromFile"      -> ImportFromFile
    [] job = "ImportFromCsvFile"   -> ImportFromCsvFile
    [] job = "ExportToFile"        -> ExportToFile
    [] job = "ExportToCsvFile"     -> ExportToCsvFile
    [] job = "CreateFromDirectory" -> CreateFromDirectory
    [] job = "Merge"               -> Merge
    [] job = "RemoveResources"     -> RemoveResources
    [] job = "DiffChangesAsLists"  -> DiffChangesAsLists
    [] job = "CreatePatch"         -> CreatePatch
    [] job = "Apply"               -> Apply
    [] job = "CreateBundle"        -> CreateBundle
    [] job = "Unpack"              -> Unpack
    [] job = "yaml"                -> ImportFromYaml("resources")
    [] job = "importChanges"       -> ImportFromYaml("changes")
    [] job = "csv"                 -> ImportFromCSV
    [] job = "lines"               -> ImportedLines(counts)
    [] job = "group"               -> CreateResourceGroupFromYamlString
    [] job = "export"              -> ExportYaml("resources")
    [] job = "exportChanges"       -> ExportYaml("changes")
    [] job = "exportPatches"       -> ExportYaml("patchList")
    [] job = "exportChunks"        -> ExportYaml("chunkList")
    [] job = "exportCsv"           -> ExportCsv
    [] job = "resources"           -> Resources(counts)
    [] job = "files"               -> ProcessedFiles(counts)
    [] job = "union"               -> MergedResources(counts)
    [] job = "removals"            -> RemovedResources(counts)
    [] job = "diff"                -> Diff
    [] job = "common"              -> CommonResources(counts)
    [] job = "added"               -> AddedResources(counts)
    [] job = "removed"             -> RemovedByDiff(counts)
    [] job = "changes"             -> Changes(counts)
    [] job = "patches"             -> GeneratedPatches(counts)
    [] job = "patchList"           -> Patches(counts)
    [] job = "chunkList"           -> Turns(1, 1)
    [] job = "removing"            -> RemovedFiles(counts)
    [] job = "rebuilding"          -> RebuiltResources(counts)
===========================================================================

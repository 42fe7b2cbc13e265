---------------------------- MODULE PatchApply ----------------------------
(***************************************************************************)
(* PatchResourceGroup::Apply: every file of the package's group is put     *)
(* together in a temporary file, which replaces the file of the            *)
(* destination when its checksum is right; the removed files are deleted   *)
(* last, and each with its folder, if nothing is left there.               *)
(*                                                                         *)
(* The destination begins as a copy of the build Apply is given, or is     *)
(* that build itself (inPlace).  A folder may be in others, the base path  *)
(* among them.                                                             *)
(***************************************************************************)
EXTENDS Builds

CONSTANTS
  FolderOf,       \* the folder of each path
  Above,          \* the folders each folder is in, directly or not
  Garbage,        \* a byte a patch makes when it is applied to other data
  NoResult

ASSUME FoldersAssumption ==
  /\ FolderOf \in [Paths -> DOMAIN Above]
  /\ \A f \in DOMAIN Above :
       /\ f \notin Above[f]
       /\ \A g \in Above[f] : g \in DOMAIN Above /\ Above[g] \subseteq Above[f]

ASSUME NoResultAssumption == NoResult # "SUCCESS"

VARIABLES
  phase,          \* where Apply is
  at,             \* the resource or the removed path its loop is at
  patchAt,        \* the patch of the resource
  input,          \* resourceDataStreamIn
  temp,           \* the temporary file
  destination,    \* the files below the destination's base path
  folders,        \* the folders there
  result,
  calls,          \* number of calls so far
  disturbed,      \* history: the call met a fault, or was made on a build
                  \* that is not the previous one
  unnoticed,      \* history: bytes were lost after the check
  warned          \* history: a removed file could not be deleted

applyVars == <<phase, at, patchAt, input, temp, destination, folders, result,
               calls, disturbed, unnoticed, warned>>

Group == package.group

Removed == package.removed

Target == Group[at]

Expected == next[Target]

Patches == PatchesOf(package.patches, Target)

ThePatch == Patches[patchAt]

\* resourcesToPatchSourceSettings
SourceBuild == IF builds.inPlace THEN destination ELSE given

Source == SourceBuild[Target]

\* What create_directories makes for a file.
FoldersFor(path) == {FolderOf[path]} \cup Above[FolderOf[path]]
--------------------------------------------------------------------------
ApplyInit ==
  /\ phase = "idle"
  /\ at = 1
  /\ patchAt = 1
  /\ input = StartRead
  /\ temp = Absent
  /\ destination = given
  /\ folders = UNION {FoldersFor(p) : p \in Present(given)}
  /\ result = NoResult
  /\ calls = 0
  /\ disturbed = FALSE
  /\ unnoticed = FALSE
  /\ warned = FALSE

KeepDisk == UNCHANGED <<destination, folders, unnoticed, warned>>

KeepCall == UNCHANGED <<result, calls, disturbed, package>>

KeepPlace == UNCHANGED <<at, patchAt, input>>

\* Every return deletes the temporary file: ScopedFile.
Return(code) ==
  /\ phase' = "idle"
  /\ result' = code
  /\ temp' = Absent

CallApply ==
  /\ phase = "idle" /\ package # NoPackage
  /\ calls < builds.calls
  /\ phase' = "loading"
  /\ calls' = calls + 1
  /\ result' = NoResult
  /\ disturbed' = (SourceBuild # previous)
  /\ unnoticed' = FALSE
  /\ warned' = FALSE
  /\ UNCHANGED <<temp, destination, folders, package>> /\ KeepPlace

LoadGroup ==
  /\ phase = "loading"
  /\ phase' = "resource"
  /\ at' = 1
  /\ UNCHANGED <<patchAt, input, temp>> /\ KeepDisk /\ KeepCall

\* The temporary file is emptied.  A resource with patches is made from the
\* file it replaces, one without them is taken from the next build.
StartResource ==
  /\ phase = "resource" /\ at <= Len(Group)
  /\ Patches # <<>> => Source # Absent
  /\ temp' = <<>>
  /\ patchAt' = 1
  /\ input' = StartRead
  /\ phase' = IF Patches = <<>> THEN "fresh" ELSE "patch"
  /\ UNCHANGED at /\ KeepDisk /\ KeepCall

SourceMissing ==
  /\ phase = "resource" /\ at <= Len(Group)
  /\ Patches # <<>> /\ Source = Absent
  /\ Return("FAILED_TO_OPEN_FILE")
  /\ KeepPlace /\ KeepDisk /\ UNCHANGED <<calls, disturbed, package>>

AtPatch == phase = "patch" /\ patchAt <= Len(Patches)

Remaining == ThePatch.dataOffset - Len(temp)

Gap == ThePatch.dataOffset < Len(Expected) /\ Remaining > 0

\* One turn of the loop that copies what lies before the patch.
CopyGap ==
  /\ AtPatch /\ Gap
  /\ input.reading
  /\ Remaining < package.chunkSize => input.position + Remaining <= Len(Source)
  /\ LET count == Least(Remaining, package.chunkSize)
     IN  /\ temp' = temp \o Piece(Source, input.position, count)
         /\ input' = Read(input, Source, count)
  /\ UNCHANGED <<phase, at, patchAt>> /\ KeepDisk /\ KeepCall

GapFails ==
  /\ AtPatch /\ Gap
  /\ ~(/\ input.reading
       /\ Remaining < package.chunkSize =>
            input.position + Remaining <= Len(Source))
  /\ Return("FAILED_TO_READ_FROM_STREAM")
  /\ KeepPlace /\ KeepDisk /\ UNCHANGED <<calls, disturbed, package>>

\* A stream that has closed itself is opened again, where it was.
Reopened == [input EXCEPT !.reading = TRUE]

AtOffset == AtPatch /\ ~Gap /\ ThePatch.dataOffset < Len(Expected)

\* A plausible slip: the difference is applied to the bytes the stream is at.
AppliedWhereStreamIs(stream) == stream

AppliedAt(stream) == Seek(stream, ThePatch.sourceOffset)

\* bspatch does not notice that it is given other bytes than bsdiff was;
\* what it makes of them may still be right.
Outcomes(bytes) ==
  IF bytes = ThePatch.base \/ ThePatch.base = <<>>
  THEN {ThePatch.result}
  ELSE {ThePatch.result, [i \in DOMAIN ThePatch.result |-> Garbage]}

ApplyDelta ==
  /\ AtOffset /\ ThePatch.hasData
  /\ LET stream == AppliedAt(Reopened)
         bytes  == Piece(Source, stream.position, package.chunkSize)
     IN  /\ \E out \in Outcomes(bytes) : temp' = temp \o out
         /\ input' = Read(stream, Source, package.chunkSize)
  /\ patchAt' = patchAt + 1
  /\ UNCHANGED <<phase, at>> /\ KeepDisk /\ KeepCall

RangeExists == ThePatch.sourceOffset + ThePatch.size <= Len(Source)

\* A stream of its own copies the range; resourceDataStreamIn is read on
\* by one chunk for every piece.
CopyRange ==
  /\ AtOffset /\ ~ThePatch.hasData
  /\ RangeExists
  /\ temp' = temp \o Piece(Source, ThePatch.sourceOffset, ThePatch.size)
  /\ LET size   == package.chunkSize
         pieces == (ThePatch.size + size - 1) \div size
     IN  input' = Read(Reopened, Source, pieces * size)
  /\ patchAt' = patchAt + 1
  /\ UNCHANGED <<phase, at>> /\ KeepDisk /\ KeepCall

RangeFails ==
  /\ AtOffset /\ ~ThePatch.hasData
  /\ ~RangeExists
  /\ Return("FAILED_TO_READ_FROM_STREAM")
  /\ KeepPlace /\ KeepDisk /\ UNCHANGED <<calls, disturbed, package>>

\* A patch behind the end of the new file is loaded, but what is appended
\* is the empty previousResourceData.
AppendNothing ==
  /\ AtPatch /\ ThePatch.dataOffset >= Len(Expected)
  /\ patchAt' = patchAt + 1
  /\ UNCHANGED <<phase, at, input, temp>> /\ KeepDisk /\ KeepCall

PatchesDone ==
  /\ phase = "patch" /\ patchAt > Len(Patches)
  /\ phase' = "check"
  /\ UNCHANGED temp /\ KeepPlace /\ KeepDisk /\ KeepCall

CopyFresh ==
  /\ phase = "fresh"
  /\ temp' = Expected
  /\ phase' = "check"
  /\ KeepPlace /\ KeepDisk /\ KeepCall
--------------------------------------------------------------------------
Beginnings(file) == {SubSeq(file, 1, n) : n \in 0..Len(file)}

\* What a file has once it was closed: FileDataStreamOut::Finish does not
\* look whether what was buffered could be written.
Closing(file) == IF builds.troubled THEN Beginnings(file) ELSE {file}

\* A plausible slip: the file is taken as it is.
CheckNothing == TRUE

\* The checksum is that of the bytes that were given to the stream.
ChecksumRight == temp = Expected

CheckFile ==
  /\ phase = "check"
  /\ ChecksumRight
  /\ \E file \in Closing(temp) :
       /\ temp' = file
       /\ unnoticed' = (unnoticed \/ file # temp)
  /\ phase' = "open"
  /\ UNCHANGED <<destination, folders, warned>> /\ KeepPlace /\ KeepCall

\* A plausible slip: a file that cannot be patched is left out.
CheckSkips ==
  /\ phase = "check"
  /\ ~ChecksumRight
  /\ phase' = "resource"
  /\ at' = at + 1
  /\ UNCHANGED <<patchAt, input, temp>> /\ KeepDisk /\ KeepCall

CheckFails ==
  /\ phase = "check"
  /\ ~ChecksumRight
  /\ Return("UNEXPECTED_PATCH_CHECKSUM_RESULT")
  /\ KeepPlace /\ KeepDisk /\ UNCHANGED <<calls, disturbed, package>>

\* A plausible slip: the destination is written over, not emptied.
OpenToOverwrite ==
  /\ phase = "open"
  /\ destination' = [destination EXCEPT ![Target] = IF @ = Absent THEN <<>> ELSE @]
  /\ folders' = folders \cup FoldersFor(Target)
  /\ phase' = "copy"
  /\ UNCHANGED <<temp, unnoticed, warned>> /\ KeepPlace /\ KeepCall

\* Opening the destination empties it, and makes its folders.
OpenDestination ==
  /\ phase = "open"
  /\ destination' = [destination EXCEPT ![Target] = <<>>]
  /\ folders' = folders \cup FoldersFor(Target)
  /\ phase' = "copy"
  /\ UNCHANGED <<temp, unnoticed, warned>> /\ KeepPlace /\ KeepCall

Copied == Len(destination[Target])

CopyPiece ==
  /\ phase = "copy" /\ Copied < Len(temp)
  /\ destination' = [destination EXCEPT
                       ![Target] = @ \o Piece(temp, Copied, package.chunkSize)]
  /\ UNCHANGED <<phase, temp, folders, unnoticed, warned>>
  /\ KeepPlace /\ KeepCall

CloseDestination ==
  /\ phase = "copy" /\ Copied = Len(temp)
  /\ \E file \in Closing(temp) :
       /\ destination' = [destination EXCEPT ![Target] = file]
       /\ unnoticed' = (unnoticed \/ file # temp)
  /\ phase' = "resource"
  /\ at' = at + 1
  /\ UNCHANGED <<patchAt, input, temp, folders, warned>> /\ KeepCall

StartRemoval ==
  /\ phase = "resource" /\ at > Len(Group)
  /\ phase' = "remove"
  /\ at' = 1
  /\ UNCHANGED <<patchAt, input, temp>> /\ KeepDisk /\ KeepCall

Doomed == Removed[at]

\* A plausible slip: there is nothing left to do for a file that is gone.
RemoveIfThere ==
  /\ phase = "remove" /\ at <= Len(Removed)
  /\ destination' = [destination EXCEPT ![Doomed] = Absent]
  /\ IF destination[Doomed] = Absent
     THEN phase' = phase /\ at' = at + 1
     ELSE phase' = "tidy" /\ at' = at
  /\ UNCHANGED <<patchAt, input, temp, folders, unnoticed, warned>> /\ KeepCall

\* That a file cannot be removed is a WARNING.
RemoveFile ==
  /\ phase = "remove" /\ at <= Len(Removed)
  /\ \E stays \in IF builds.troubled /\ destination[Doomed] # Absent
                  THEN BOOLEAN ELSE {FALSE} :
       /\ destination' = IF stays THEN destination
                         ELSE [destination EXCEPT ![Doomed] = Absent]
       /\ warned' = (warned \/ stays)
  /\ phase' = "tidy"
  /\ UNCHANGED <<temp, folders, unnoticed>> /\ KeepPlace /\ KeepCall

\* No file is there, and no folder.
IsEmpty(folder) ==
  /\ \A p \in Present(destination) : FolderOf[p] # folder
  /\ \A f \in folders : folder \notin Above[f]

\* is_directory && is_empty
Tidy(folder) == folder \in folders /\ IsEmpty(folder)

\* Only the folder of the path is looked at, not the one that is in.
RemoveFolder ==
  /\ phase = "tidy" /\ Tidy(FolderOf[Doomed])
  /\ folders' = folders \ {FolderOf[Doomed]}
  /\ UNCHANGED <<phase, temp, destination, unnoticed, warned>>
  /\ KeepPlace /\ KeepCall

\* The loop tries again for as long as the folder cannot be removed.
FolderStays ==
  /\ builds.troubled
  /\ phase = "tidy" /\ Tidy(FolderOf[Doomed])
  /\ UNCHANGED <<phase, temp>> /\ KeepPlace /\ KeepDisk /\ KeepCall

\* A plausible slip: the loop does not go on.
SameRemovedAgain ==
  /\ phase = "tidy" /\ ~Tidy(FolderOf[Doomed])
  /\ phase' = "remove"
  /\ UNCHANGED temp /\ KeepPlace /\ KeepDisk /\ KeepCall

NextRemoved ==
  /\ phase = "tidy" /\ ~Tidy(FolderOf[Doomed])
  /\ phase' = "remove"
  /\ at' = at + 1
  /\ UNCHANGED <<patchAt, input, temp>> /\ KeepDisk /\ KeepCall

ApplyDone ==
  /\ phase = "remove" /\ at > Len(Removed)
  /\ Return("SUCCESS")
  /\ KeepPlace /\ KeepDisk /\ UNCHANGED <<calls, disturbed, package>>

\* The group, a source or a patch cannot be read, the temporary file or the
\* destination not be opened or written.
ApplyFails ==
  /\ builds.troubled
  /\ phase \in {"loading", "resource", "patch", "fresh", "open", "copy"}
  /\ Return("FAIL")
  /\ disturbed' = TRUE
  /\ KeepPlace /\ KeepDisk /\ UNCHANGED <<calls, package>>

\* The process dies; the temporary file stays.
Crash ==
  /\ builds.troubled
  /\ phase # "idle"
  /\ phase' = "idle"
  /\ disturbed' = TRUE
  /\ UNCHANGED <<temp, result, calls, package>> /\ KeepPlace /\ KeepDisk

ApplyStep ==
  \/ LoadGroup \/ StartResource \/ SourceMissing \/ CopyGap \/ GapFails
  \/ ApplyDelta \/ CopyRange \/ RangeFails \/ AppendNothing \/ PatchesDone \/ CopyFresh
  \/ CheckFile \/ CheckFails \/ OpenDestination \/ CopyPiece
  \/ CloseDestination \/ StartRemoval \/ RemoveFile \/ NextRemoved
  \/ ApplyDone \/ ApplyFails

ApplyNext == CallApply \/ ApplyStep \/ RemoveFolder \/ FolderStays \/ Crash
==========================================================================

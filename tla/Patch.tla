------------------------------- MODULE Patch -------------------------------
(***************************************************************************)
(* CreatePatch and Apply, one after the other: the package leads from the  *)
(* previous build to the next one.                                         *)
(***************************************************************************)
EXTENDS PatchCreate, PatchApply

patchVars == <<builds, package, createVars, applyVars>>

\* With a package of another version CreatePatch has nothing to do.
PatchInit ==
  /\ builds \in Scenarios
  /\ package = builds.package
  /\ CreateInit
  /\ ApplyInit

CreateStep ==
  /\ builds.package = NoPackage
  /\ CreateNext
  /\ UNCHANGED <<builds, applyVars>>

PatchNext ==
  \/ CreateStep
  \/ ApplyNext /\ UNCHANGED <<builds, createVars>>

\* Apply is a loop without waiting: it goes on for as long as the process
\* lives.  A folder is removed on a disk without faults; nothing says that one
\* that could not be removed can be later.  Nothing is assumed of CreatePatch.
PatchFairness ==
  /\ WF_patchVars(ApplyStep /\ UNCHANGED <<builds, createVars>>)
  /\ WF_patchVars(~builds.troubled /\ RemoveFolder /\ UNCHANGED <<builds, createVars>>)

PatchSpec == PatchInit /\ [][PatchNext]_patchVars /\ PatchFairness
---------------------------------------------------------------------------
Bytes == UNION {{file[i] : i \in DOMAIN file} :
                  file \in {given[p] : p \in Present(given)}
                           \cup {next[p] : p \in Present(next)}}

IsFile(file) == file = Absent \/ \A i \in DOMAIN file : file[i] \in Bytes

Results == {NoResult, "SUCCESS", "FAIL", "FAILED_TO_OPEN_FILE", "FAILED_TO_READ_FROM_STREAM",
            "UNEXPECTED_PATCH_CHECKSUM_RESULT"}

\* The positions of streams, patches and loops are where the code can use
\* them, and no byte a patch has made out of other data reaches a build.
PatchTypeOK ==
  /\ stage \in {"pair", "chunk", "document", "created", "failed"}
  /\ pair \in 1..(Len(Pairs) + 1)
  /\ stage = "chunk" => /\ previousIn.position \in 0..Len(Old)
                        /\ nextIn.position \in 0..Len(New)
  /\ phase \in {"idle", "loading", "resource", "patch", "fresh", "check",
                "open", "copy", "remove", "tidy"}
  /\ at \in Nat /\ patchAt \in Nat
  /\ input.position \in Nat
  /\ \A p \in Paths : IsFile(destination[p])
  /\ folders \subseteq UNION {FoldersFor(p) : p \in Paths}
  /\ result \in Results
  /\ calls \in 0..builds.calls
  /\ {blind, disturbed, unnoticed, warned} \subseteq BOOLEAN
---------------------------------------------------------------------------
AtFirstChunk == stage = "chunk" /\ dataOffset = 0

\* The checksum Generate rolls from window to window is the checksum
\* FindMatchingChunk computes of a chunk with the same bytes.
RollingIsExact ==
  AtFirstChunk =>
    LET sums == RollingSums(Old, chunkSize)
    IN  \A k \in DOMAIN sums :
          sums[k] = FullChecksum(Piece(Old, k, chunkSize))

WindowSum(k) == Checksum(FullChecksum(Piece(Old, k, chunkSize)))

\* The windows of the previous file with a checksum.
WindowsWith(checksum) ==
  {k \in 0..(Len(Old) - chunkSize) : WindowSum(k) = checksum}

\* All index files could be written, with offsets that fit into 32 bits.
IndexIsWhole == ~blind /\ Len(Old) <= OffsetModulo

\* FindChunkOffsets gives every window of the previous file that may be asked
\* for at its own offset, however the windows fall into index files.  Any
\* other offset is the one nobody wrote, which it reads behind the last
\* entry of an index file that ends with the checksum.
IndexExact ==
  AtFirstChunk /\ IndexIsWhole =>
    \A c \in ChecksumFilter(New, chunkSize), unread \in [DOMAIN index -> 0..(OffsetModulo - 1)] :
      LET offsets == ChunkOffsets(index, c, unread)
      IN  /\ WindowsWith(c) \subseteq offsets
          /\ \A offset \in offsets \ WindowsWith(c) :
               \E f \in DOMAIN index :
                 /\ index[f][Len(index[f])].checksum = c
                 /\ offset = (f - 1) * BlocksPerFile + unread[f]

\* The whole chunks of the next file that the previous one has, with no
\* window of the same checksum and other bytes in the way.
FoundableChunks ==
  LET chunks == {Piece(New, i * chunkSize, chunkSize) :
                   i \in {j \in 0..Len(New) : (j + 1) * chunkSize <= Len(New)}}
      Same(chunk) == WindowsWith(Checksum(FullChecksum(chunk)))
  IN  {chunk \in chunks :
         /\ Same(chunk) # {}
         /\ \A k \in Same(chunk) : Piece(Old, k, chunkSize) = chunk}

IsFound(chunk) ==
  FindMatchingChunk(index, Old, chunk) \in WindowsWith(Checksum(FullChecksum(chunk)))

\* The chunk has a window whose entry goes to the first index file.
InFirstFile(chunk) ==
  \E k \in WindowsWith(Checksum(FullChecksum(chunk))) :
    FileNumber(RelevantWindows(Old, New, chunkSize), k) = 0

\* CreatePatch finds a chunk of the next file in the previous one, wherever
\* it is there, if nothing collides with it and one of its windows is in the
\* first index file.  (A chunk that is only in later ones is sought without
\* their base, at the wrong place.)
ChunkFound ==
  AtFirstChunk /\ IndexIsWhole =>
    \A chunk \in FoundableChunks : InFirstFile(chunk) => IsFound(chunk)

\* CreatePatch, "We find a matching chunk if it exists": the same, whichever
\* index file has the chunk.
MatchIfExists ==
  AtFirstChunk /\ IndexIsWhole => \A chunk \in FoundableChunks : IsFound(chunk)

\* What the patches of a file make of the previous file, if every patch
\* with data is given the bytes it was made from.
Rebuilt(list, file) ==
  FlattenSeq([i \in DOMAIN list |->
                IF list[i].hasData THEN list[i].result
                ELSE Piece(file, list[i].sourceOffset, list[i].size)])

\* At every turn of CreatePatch's loop the patches so far rebuild the next
\* file up to dataOffset: matches are real in spite of checksums that
\* collide and index files that are missing, and no byte is left out or
\* made twice.
PatchesRebuild ==
  stage = "chunk" =>
    LET list == PatchesOf(patches, Path)
        made == Rebuilt(list, Old)
    IN  /\ dataOffset < Len(New) => Len(made) = dataOffset
        /\ Piece(made, 0, Len(New)) = Piece(New, 0, dataOffset)

\* A patch with data was made from the bytes Apply will read for it.
BaseIsRecorded(x) ==
  x.hasData => \/ x.base = <<>>
               \/ x.base = Piece(previous[x.target], x.sourceOffset, chunkSize)

\* A patch without data copies no more than the next file still needs.
EndsWithFile(x) == x.hasData \/ x.dataOffset + x.size <= Len(next[x.target])

\* CreatePatch, "in hopes of getting a good diff": the base of a difference
\* is where the patch says it is.
RecordedBase == \A i \in DOMAIN patches : BaseIsRecorded(patches[i])
---------------------------------------------------------------------------
Patched == ChangedPaths \cup NewPaths

\* SUCCESS means that the destination is the next build: changed and new
\* files have its content, even if Apply was given another build than the
\* previous one, removed files are gone unless the caller was warned, and no
\* other file was touched.
ApplyRestores ==
  result = "SUCCESS" /\ ~unnoticed =>
    \A p \in Paths :
      \/ destination[p] = IF p \in Patched \cup RemovedPaths THEN next[p] ELSE given[p]
      \/ p \in RemovedPaths /\ warned /\ destination[p] = given[p]

\* Whatever fails, and whenever the process dies: a file of the destination
\* has its old content, or the new one up to some point.  In place the old
\* content may be lost by then, which is why a staging area is offered
\* (PatchResourceGroup.h:26).
NoMixture ==
  \A p \in Paths :
    \/ destination[p] = given[p]
    \/ p \in Patched /\ destination[p] \in Beginnings(next[p])
    \/ p \in RemovedPaths /\ destination[p] = Absent

\* A removed file is deleted, and a folder with it, only when every patched
\* file is in place: a call that fails leaves a build that can be patched
\* again.
RemovalLast ==
  [][\A p \in Paths :
       destination[p] # Absent /\ destination'[p] = Absent =>
         /\ p \in RemovedPaths
         /\ unnoticed \/ \A q \in Patched : destination[q] = next[q]]_destination

\* A call without a fault on the previous build, or on a staging area
\* however many calls have failed or died there before, fails only because
\* of the patches: one was made from other bytes than those it is applied
\* to, or copies beyond the end of the file.
FailureExplained ==
  result \in Results \ {NoResult, "SUCCESS"} /\ ~disturbed =>
    \E i \in DOMAIN package.patches :
      \/ ~BaseIsRecorded(package.patches[i])
      \/ ~EndsWithFile(package.patches[i])

\* A removed file was in a folder below this one, and none that comes later
\* in the list is in this one itself.
LostSubfolderLast(folder) ==
  \E j \in DOMAIN Removed :
    /\ folder \in Above[FolderOf[Removed[j]]]
    /\ \A i \in DOMAIN Removed : FolderOf[Removed[i]] = folder => i < j

\* Whatever calls have failed or died before, a folder that is empty after
\* SUCCESS has become empty with the removal of a folder in it, and its own
\* removed files came earlier: only the folder of a removed file is removed
\* with it, never the one that is in.
NoEmptyFolders ==
  result = "SUCCESS" => \A f \in folders : IsEmpty(f) => LostSubfolderLast(f)

\* Apply, "Remove any empty directories left over": no folder is empty then.
NoFolderLeftOver == result = "SUCCESS" => \A f \in folders : ~IsEmpty(f)

\* Every call of Apply ends, or stays for ever at an empty folder that cannot
\* be removed, which is tried again without a bound: no gap, range, empty
\* file or folder that is gone keeps a loop turning.
ApplyEnds ==
  (phase # "idle") ~>
    \/ phase = "idle"
    \/ [](phase = "tidy" /\ builds.troubled /\ Tidy(FolderOf[Doomed]))
===========================================================================

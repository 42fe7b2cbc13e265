--------------------------- MODULE BundleUnpack ---------------------------
(***************************************************************************)
(* BundleResourceGroup::Unpack: the chunks of a bundle are fetched one at  *)
(* a time into the cache of a BundleStreamIn, and the files are cut out of *)
(* it again.                                                               *)
(*                                                                         *)
(* The chunks are cut from one stream of bytes, all files one after the    *)
(* other, and the cache only ever gets bytes at its end and loses bytes at *)
(* its front.  So a byte is its position, the cache is what lies between   *)
(* two positions, and what was written to a file lies between two others.  *)
(* Two bytes at different positions count as different.                    *)
(***************************************************************************)
EXTENDS Naturals, Sequences

CONSTANTS
  Bundles,        \* the bundles that may have to be unpacked
  SourceTypes,    \* where chunks come from: LOCAL_CDN, REMOTE_CDN
  MaxExcess       \* bound: by how much a damaged chunk is too long

VARIABLES
  bundle,         \* the BundleResourceGroup and the group inside it
  output,         \* output[f]: what the call has made of file f
  pc, source,     \* the call in progress, and its sourceType
  index,          \* file of the group the loop is at
  next,           \* chunkIterator
  fetched,        \* end of the bytes appended to m_cache so far
  taken,          \* end of the bytes taken out of m_cache so far
  from,           \* the value of taken when the current file was opened
  dataRead,       \* m_dataReadOfCurrentFile
  intact, sound,  \* history: all fetched so far is genuine; all before sound is
  faulted,        \* history: something but the bundle's content failed
  result          \* what the call returned, or none

vars == <<bundle, output, pc, source, index, next, fetched, taken, from,
          dataRead, intact, sound, faulted, result>>

reading == <<next, fetched, taken, dataRead, intact, sound>>
--------------------------------------------------------------------------
(* Bundles.  A file has the size its group records and the place its bytes *)
(* really have in the stream.  It is faithful when they are the bytes the  *)
(* group has the checksum of; CreateBundle does not compare them.          *)

BundleFile == [located : BOOLEAN, size : Nat, from : Nat, to : Nat,
               faithful : BOOLEAN]

\* Where file f begins, when there is nothing between the files.
Boundary(b, f) == IF f = 1 THEN 0 ELSE b.files[f - 1].to

ChunkEnd(b, c) == IF c = 0 THEN 0 ELSE b.ends[c]

ChunkLength(b, c) == ChunkEnd(b, c) - ChunkEnd(b, c - 1)

\* What every bundle is: files side by side, chunks side by side, and no
\* chunk but the last one with less than ChunkSize bytes in it.
WellCut(b) ==
  /\ b.chunkSize \in Nat \ {0}
  /\ b.files \in Seq(BundleFile)
  /\ b.ends \in Seq(Nat)
  /\ \A f \in DOMAIN b.files :
       /\ b.files[f].from = Boundary(b, f)
       /\ b.files[f].from <= b.files[f].to
       /\ ~b.files[f].located => b.files[f].to = b.files[f].from
       /\ b.files[f].faithful => b.files[f].size = b.files[f].to - b.files[f].from
  /\ \A c \in DOMAIN b.ends : ChunkEnd(b, c - 1) <= b.ends[c]
  /\ \A c \in DOMAIN b.ends : c < Len(b.ends) => b.chunkSize <= ChunkLength(b, c)

\* All bytes are there, and all are the recorded ones.
Faithful(b) ==
  /\ \A f \in DOMAIN b.files : b.files[f].to <= ChunkEnd(b, Len(b.ends))
  /\ \A f \in DOMAIN b.files : b.files[f].located => b.files[f].faithful

ASSUME BundlesAssumption == \A b \in Bundles : WellCut(b)

ASSUME SourcesAssumption == SourceTypes \subseteq {"LOCAL_CDN", "REMOTE_CDN"}

ASSUME ExcessAssumption == MaxExcess \in Nat
--------------------------------------------------------------------------
File == bundle.files[index]

CacheSize == fetched - taken

\* FileDataStreamOut::GetFileSize of the file being written.
FileSize == taken - from

MoreFiles == index <= Len(bundle.files)

MoreChunks == next <= Len(bundle.ends)

\* What is in the current file is what its checksum was made from.
Genuine ==
  /\ FileSize = File.size
  /\ File.size > 0 => /\ File.faithful
                      /\ from = File.from
                      /\ taken <= sound

Return(code) == pc' = "idle" /\ result' = code

Init ==
  /\ bundle \in Bundles
  /\ output = [f \in DOMAIN bundle.files |-> "absent"]
  /\ source \in SourceTypes
  /\ pc = "idle"
  /\ result = "none"
  /\ index = 1 /\ next = 1
  /\ fetched = 0 /\ taken = 0 /\ from = 0 /\ dataRead = 0 /\ sound = 0
  /\ intact = TRUE /\ faulted = FALSE

\* Unpack is called, for the first time or again.  What lies at the
\* destination is overwritten, so that nothing depends on it.
Call(s) ==
  /\ pc = "idle"
  /\ pc' = "group"
  /\ source' = s
  /\ output' = [f \in DOMAIN bundle.files |-> "absent"]
  /\ index' = 1 /\ next' = 1
  /\ fetched' = 0 /\ taken' = 0 /\ from' = 0 /\ dataRead' = 0 /\ sound' = 0
  /\ intact' = TRUE /\ faulted' = FALSE
  /\ result' = "none"
  /\ UNCHANGED bundle

\* Something outside the bundle makes the call fail.
Fail(code) ==
  /\ Return(code)
  /\ faulted' = TRUE
  /\ UNCHANGED <<bundle, output, source, index, from, reading>>

ReadGroup ==
  /\ pc = "group"
  /\ \/ /\ pc' = "file"
        /\ UNCHANGED <<bundle, output, source, index, from, reading, faulted, result>>
     \/ Fail("FAILED_TO_OPEN_FILE")

\* A resource without a location has no file.
SkipFile ==
  /\ pc = "file"
  /\ MoreFiles
  /\ ~File.located
  /\ index' = index + 1
  /\ UNCHANGED <<bundle, output, pc, source, from, reading, faulted, result>>

\* PutDataStream truncates what is there.
OpenOutput ==
  /\ pc = "file"
  /\ MoreFiles
  /\ File.located
  /\ \/ /\ pc' = "fill"
        /\ from' = taken
        /\ output' = [output EXCEPT ![index] = "partial"]
        /\ UNCHANGED <<bundle, source, index, reading, faulted, result>>
     \/ Fail("FAILED_TO_SAVE_FILE")
--------------------------------------------------------------------------
(* One round of the loop that fills a file: a chunk is fetched if there is *)
(* one left, even if the cache would do, and bytes are taken.              *)

\* GetData gives n bytes, of which the first m are what they should be.  The
\* code moves chunkIterator after the piece was written; until then nothing
\* looks at it.
AppendToCache(m, n) ==
  /\ pc' = "take"
  /\ next' = next + 1
  /\ fetched' = fetched + n
  /\ sound' = IF intact THEN sound + m ELSE sound
  /\ UNCHANGED <<bundle, output, source, index, from, taken, dataRead, result>>

\* A chunk that is not what was recorded: too short, too long, or with wrong
\* bytes in it.  Of its n bytes the first m are right.
Damages(length) ==
  {d \in (0..length) \X (0..(length + MaxExcess)) :
     d[1] <= d[2] /\ d # <<length, length>>}

FetchChunk ==
  /\ pc = "fill"
  /\ FileSize < File.size
  /\ MoreChunks
  /\ LET length == ChunkLength(bundle, next)
     IN  \/ AppendToCache(length, length) /\ UNCHANGED <<intact, faulted>>
         \/ Fail("FAILED_TO_OPEN_FILE")
         \* Only a chunk that is downloaded is compared with its checksum.
         \/ /\ source = "LOCAL_CDN"
            /\ \E damage \in Damages(length) :
                 AppendToCache(damage[1], damage[2])
            /\ intact' = FALSE
            /\ faulted' = TRUE

NoMoreChunks ==
  /\ pc = "fill"
  /\ FileSize < File.size
  /\ ~MoreChunks
  /\ IF CacheSize = 0
     THEN Return("UNEXPECTED_END_OF_CHUNKS")
     ELSE pc' = "take" /\ UNCHANGED result
  /\ UNCHANGED <<bundle, output, source, index, from, reading, faulted>>

\* A plausible slip: no reset, the next file starts in the middle.
DataReadKept(last) == IF last THEN dataRead ELSE dataRead + bundle.chunkSize

\* m_dataReadOfCurrentFile after `>>`.
DataReadAfter(last) == IF last THEN 0 ELSE dataRead + bundle.chunkSize

\* A plausible slip: off by one, an exact end is not seen as the end.
IsBeforeLastPiece == dataRead + bundle.chunkSize > File.size

IsLastPiece == dataRead + bundle.chunkSize >= File.size

\* A plausible slip: the last piece is not cut at the end of the file.
WantedInFull == bundle.chunkSize

\* How many bytes `>>` asks the cache for.  The difference is unsigned: when
\* it would be negative it is larger than any cache.
Wanted ==
  IF ~IsLastPiece THEN bundle.chunkSize
  ELSE IF dataRead <= File.size THEN File.size - dataRead ELSE CacheSize

\* A plausible slip: the cache is taken to hold what is asked for.
TakenUnchecked == Wanted

\* substr and erase give what there is.
Taken == IF Wanted < CacheSize THEN Wanted ELSE CacheSize

Take ==
  /\ pc = "take"
  /\ \/ /\ CacheSize = 0
        /\ Return("FAILED_TO_RETRIEVE_CHUNK_DATA")
        /\ UNCHANGED <<bundle, output, source, index, from, reading, faulted>>
     \/ /\ CacheSize > 0
        /\ pc' = "fill"
        /\ taken' = taken + Taken
        /\ dataRead' = DataReadAfter(IsLastPiece)
        /\ UNCHANGED <<bundle, output, source, index, from, next, fetched, intact,
                       sound, faulted, result>>
     \/ CacheSize > 0 /\ Fail("FAILED_TO_SAVE_TO_STREAM")

\* A plausible slip: only the length of the file is compared.
ChecksumIgnored == FileSize = File.size

ChecksumMatches == Genuine

\* A file is short when bytes that were buffered are lost as it is closed:
\* nobody looks whether that went well, and the checksum is that of the
\* bytes that were given to the stream.
Closed ==
  IF ~Genuine THEN {"partial"}
  ELSE IF FileSize = 0 THEN {"good"} ELSE {"good", "short"}

CloseFile ==
  /\ pc = "fill"
  /\ FileSize >= File.size
  /\ \E state \in Closed : output' = [output EXCEPT ![index] = state]
  /\ IF ChecksumMatches
     THEN pc' = "file" /\ index' = index + 1 /\ UNCHANGED result
     ELSE Return("UNEXPECTED_CHUNK_CHECKSUM_RESULT") /\ UNCHANGED index
  /\ UNCHANGED <<bundle, source, from, reading, faulted>>

\* The group itself is written last.
ExportGroup ==
  /\ pc = "file"
  /\ ~MoreFiles
  /\ \/ /\ Return("SUCCESS")
        /\ UNCHANGED <<bundle, output, source, index, from, reading, faulted>>
     \/ Fail("FAILED_TO_SAVE_FILE")

Proceed ==
  \/ ReadGroup
  \/ SkipFile
  \/ OpenOutput
  \/ FetchChunk
  \/ NoMoreChunks
  \/ Take
  \/ CloseFile
  \/ ExportGroup

Next == Proceed \/ \E s \in SourceTypes : Call(s)

Spec == Init /\ [][Next]_vars /\ WF_vars(Proceed)
--------------------------------------------------------------------------
Codes == {"none", "SUCCESS", "FAILED_TO_OPEN_FILE", "FAILED_TO_SAVE_FILE",
          "FAILED_TO_SAVE_TO_STREAM", "FAILED_TO_RETRIEVE_CHUNK_DATA",
          "UNEXPECTED_END_OF_CHUNKS", "UNEXPECTED_CHUNK_CHECKSUM_RESULT"}

\* The members have their types, the cache is never negative, and inside the
\* loops there is a file.
TypeOK ==
  /\ WellCut(bundle)
  /\ output \in [DOMAIN bundle.files -> {"absent", "partial", "good", "short"}]
  /\ pc \in {"idle", "group", "file", "fill", "take"}
  /\ source \in {"LOCAL_CDN", "REMOTE_CDN"}
  /\ index \in 1..(Len(bundle.files) + 1)
  /\ pc \in {"fill", "take"} => index <= Len(bundle.files)
  /\ next \in 1..(Len(bundle.ends) + 1)
  /\ fetched \in Nat /\ taken \in Nat /\ from \in Nat
  /\ dataRead \in Nat /\ sound \in Nat
  /\ taken <= fetched
  /\ sound <= fetched
  /\ from <= taken
  /\ intact \in BOOLEAN /\ faulted \in BOOLEAN
  /\ result \in Codes

\* Unpack returns SUCCESS only when every file of the group is in the
\* destination with the content its checksum was made from, whatever was in
\* the chunks and whatever the group was made from - but for bytes that were
\* lost when a file was closed, the only way to get less than was recorded.
UnpackRestores ==
  pc = "idle" /\ result = "SUCCESS" =>
    \A f \in DOMAIN bundle.files : bundle.files[f].located => output[f] \in {"good", "short"}

\* A bundle with all its bytes, made from the files its group describes, is
\* unpacked: wherever its chunks and files end, only a failure outside it
\* makes the call fail.
CleanUnpackSucceeds ==
  pc = "idle" /\ Faithful(bundle) /\ ~faulted => result \in {"none", "SUCCESS"}

\* Every call returns: the loop that fills a file gets nearer to its end in
\* every round, whatever the sizes and the chunks.
UnpackEnds == pc # "idle" ~> pc = "idle"
==========================================================================

---------------------------- MODULE PatchCreate ----------------------------
(***************************************************************************)
(* ResourceGroup::CreatePatch: every changed file of the next build is     *)
(* read chunk by chunk next to the file of the previous build.  A chunk    *)
(* the index finds in the previous file becomes a patch without data,      *)
(* together with the chunks that follow it in both files; any other chunk  *)
(* becomes the difference to the chunk the previous stream is at.          *)
(***************************************************************************)
EXTENDS Builds, ChunkIndex

VARIABLES
  stage,          \* where CreatePatch is
  pair,           \* the pair of resources its loop is at
  index,          \* the ChunkIndex of the pair
  previousIn, nextIn,   \* previousFileDataStream, nextFileDataStream
  dataOffset,     \* of the loop over the chunks
  sourceOffset,   \* patchSourceOffset
  patches,        \* the patchResourceGroup so far
  blind           \* history: not every index file could be written

createVars == <<stage, pair, index, previousIn, nextIn, dataOffset,
                sourceOffset, patches, blind>>

\* The two results of Diff, walked in parallel.
Pairs == Ascending(ChangedPaths) \o Ascending(NewPaths)

Path == Pairs[pair]

Old == previous[Path]

New == next[Path]

Closed == [position |-> 0, reading |-> FALSE]
---------------------------------------------------------------------------
CreateInit ==
  /\ stage = "pair"
  /\ pair = 1
  /\ index = <<>>
  /\ previousIn = Closed
  /\ nextIn = Closed
  /\ dataOffset = 0
  /\ sourceOffset = 0
  /\ patches = <<>>
  /\ blind = FALSE

KeepFile == UNCHANGED <<index, previousIn, nextIn, dataOffset, sourceOffset, blind>>

\* A new file, or one whose previous content is empty, gets no patch: it is
\* shipped as it is.
SkipPair ==
  /\ stage = "pair" /\ pair <= Len(Pairs)
  /\ Path \in NewPaths \/ Old = <<>>
  /\ pair' = pair + 1
  /\ UNCHANGED <<stage, patches, package>> /\ KeepFile

\* Both streams are opened and the index is made.  That an index file, or
\* the folder for all of them, cannot be written is at most a WARNING.
OpenPair ==
  /\ stage = "pair" /\ pair <= Len(Pairs)
  /\ ~(Path \in NewPaths \/ Old = <<>>)
  /\ \E lost \in IF builds.troubled THEN SUBSET (0..1) ELSE {{}} :
       /\ index' = Generate(Old, New, chunkSize, lost)
       /\ blind' = (lost # {})
  /\ stage' = "chunk"
  /\ previousIn' = StartRead
  /\ nextIn' = StartRead
  /\ dataOffset' = 0
  /\ sourceOffset' = 0
  /\ UNCHANGED <<pair, patches, package>>

\* The chunks a turn of the loop looks at.  The previous stream starts
\* again when it has come to its end before the next one.
PreviousStream ==
  IF ~previousIn.reading /\ Len(Old) > nextIn.position THEN StartRead
  ELSE previousIn

PreviousChunk ==
  IF PreviousStream.reading
  THEN Piece(Old, PreviousStream.position, chunkSize)
  ELSE <<>>

NextChunk == Piece(New, nextIn.position, chunkSize)

Match ==
  IF PreviousChunk = <<>> THEN NoMatch
  ELSE FindMatchingChunk(index, Old, NextChunk)

MoreChunks == stage = "chunk" /\ dataOffset < Len(New)

MatchSize(offset, count) == Least(chunkSize * count, Len(Old) - offset)

\* A plausible slip: the stream is moved behind the end of the file.
NextBehindMatch(size) ==
  Seek(Read(nextIn, New, chunkSize), nextIn.position + size)

NextAfterMatch(size) ==
  Seek(Read(nextIn, New, chunkSize), Least(Len(New), nextIn.position + size))

NewPatch(offset, size, base, result, hasData) ==
  [target |-> Path, dataOffset |-> dataOffset, sourceOffset |-> offset,
   size |-> size, base |-> base, result |-> result, hasData |-> hasData]

\* The chunk and the ones after it are in the previous file.  The previous
\* stream is read through the match for a checksum, which closes it when
\* the match ends with the file, and both streams are put behind the match.
MatchChunk ==
  /\ MoreChunks
  /\ Match # NoMatch
  /\ LET after == nextIn.position + Len(NextChunk)
         count == 1 + CountMatchingChunks(New, after, Old, Match + chunkSize,
                                          chunkSize)
         size  == MatchSize(Match, count)
         end   == Match + size
     IN  /\ patches' = Append(patches, NewPatch(Match, size, <<>>, <<>>, FALSE))
         /\ previousIn' = [position |-> Least(Len(Old), end),
                           reading |-> end < Len(Old)]
         /\ nextIn' = NextAfterMatch(size)
         /\ dataOffset' = dataOffset + size
         /\ sourceOffset' = end
  /\ UNCHANGED <<stage, pair, index, blind, package>>

\* The file of a patch with data is written; Match leaves the offset alone
\* when it finds nothing.
DiffChunk ==
  /\ MoreChunks
  /\ Match = NoMatch
  /\ patches' = Append(patches, NewPatch(sourceOffset, 0, PreviousChunk,
                                         NextChunk, TRUE))
  /\ previousIn' = IF PreviousStream.reading
                   THEN Read(PreviousStream, Old, chunkSize)
                   ELSE PreviousStream
  /\ nextIn' = Read(nextIn, New, chunkSize)
  /\ dataOffset' = dataOffset + chunkSize
  /\ sourceOffset' = sourceOffset + (IF PreviousChunk # <<>>
                                     THEN Len(PreviousChunk)
                                     ELSE Len(NextChunk))
  /\ UNCHANGED <<stage, pair, index, blind, package>>

NextPair ==
  /\ stage = "chunk" /\ dataOffset >= Len(New)
  /\ stage' = "pair"
  /\ pair' = pair + 1
  /\ UNCHANGED <<patches, package>> /\ KeepFile

\* The group of the changed and new resources is written, then the
\* document that refers to it.
PutGroup ==
  /\ stage = "pair" /\ pair > Len(Pairs)
  /\ stage' = "document"
  /\ UNCHANGED <<pair, patches, package>> /\ KeepFile

PutDocument ==
  /\ stage = "document"
  /\ stage' = "created"
  /\ package' = [group |-> Pairs, removed |-> Ascending(RemovedPaths),
                 patches |-> patches, chunkSize |-> chunkSize]
  /\ UNCHANGED <<pair, patches>> /\ KeepFile

\* A stream cannot be opened, a patch, the group or the document cannot be
\* written: the call returns with what it has written left behind.
CreateFails ==
  /\ builds.troubled
  /\ stage \in {"pair", "chunk", "document"}
  /\ stage' = "failed"
  /\ UNCHANGED <<pair, patches, package>> /\ KeepFile

CreateNext ==
  \/ SkipPair \/ OpenPair \/ MatchChunk \/ DiffChunk \/ NextPair
  \/ PutGroup \/ PutDocument \/ CreateFails
===========================================================================

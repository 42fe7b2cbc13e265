--------------------------- MODULE BundleCreate ---------------------------
(***************************************************************************)
(* ResourceGroup::CreateBundle: the files of a group are read one after    *)
(* the other into a BundleStreamOut, what it wrote becomes a chunk, and    *)
(* the group and the bundle document are written.                          *)
(*                                                                         *)
(* As in BundleUnpack a byte is its position in the stream of all files.   *)
(* The loop has no check of what it reads: a file may differ from what the *)
(* group records of it.  The destination of the chunk is a local one.      *)
(***************************************************************************)
EXTENDS Naturals, Sequences

CONSTANTS
  Entries,        \* the possible resources: records, see below
  MaxEntries,     \* bound: resources in a group
  ChunkSizes,     \* possible values of params.chunkSize
  ReadSize,       \* params.fileReadChunkSize
  DiskMayFail,    \* BOOLEAN: the disk can fail, and files on it can go
  NoChunk

\* size is what the group records, length what the file has; faithful tells
\* whether the file still is what the group has the checksum of.
ASSUME EntriesAssumption ==
  /\ \A e \in Entries :
       /\ DOMAIN e = {"located", "size", "length", "faithful"}
       /\ e.located \in BOOLEAN
       /\ e.size \in Nat
       /\ e.length \in Nat
       /\ e.faithful \in BOOLEAN
       /\ e.faithful => e.size = e.length
       /\ ~e.located => e.length = 0
  /\ MaxEntries \in Nat
  /\ NoChunk \notin Nat

\* SetChunkSize refuses 0; fileReadChunkSize is not looked at.
ASSUME NumbersAssumption ==
  /\ ChunkSizes \subseteq Nat \ {0}
  /\ ReadSize \in Nat \ {0}
  /\ DiskMayFail \in BOOLEAN

VARIABLES
  group,          \* the resources, in order
  chunkSize,
  stage, at,      \* where CreateBundle is, and the resource its loop is at
  input,          \* resourceDataStream
  data,           \* how much of the last piece read is not yet written
  read,           \* end of the bytes given to the stream so far
  spans,          \* history: where the bytes of each resource are
  stream,         \* the BundleStreamOut
  disk,           \* what the call has left in its destinations, and how
                  \* much of the chunk its recorded checksum is made from
  outcome

createVars == <<group, chunkSize, stage, at, input, data, read, spans, stream,
          disk, outcome>>

\* started: m_compressionStream is set.  opened: the output streams, and
\* which one could not be.  raws: the length of each raw file.  lost: a write
\* failed, and all after it do.  dropped: the bytes << has read and not
\* written, because it found no streams.  reopened: the streams of GetChunk.
Stream == [started : BOOLEAN, opened : {"no", "yes", "noRaw", "noCompressed"},
           raws : Seq(Nat), lost : BOOLEAN, dropped : Nat,
           reopened : {"no", "yes", "failed"}, chunksCreated : Nat]

\* m_chunksExported is never changed.
ChunksExported == 0

Least(a, b) == IF a < b THEN a ELSE b

Resource == group[at]

MoreResources == at <= Len(group)

Finish(code) == stage' = "done" /\ outcome' = code
--------------------------------------------------------------------------
CreateInit ==
  /\ group \in UNION {[1..n -> Entries] : n \in 0..MaxEntries}
  /\ chunkSize \in ChunkSizes
  /\ stage = "resource"
  /\ at = 1
  /\ input = [position |-> 0, reading |-> FALSE, broken |-> FALSE]
  /\ data = 0
  /\ read = 0
  /\ spans = <<>>
  /\ stream = [started |-> FALSE, opened |-> "no", raws |-> <<>>, lost |-> FALSE,
               dropped |-> 0, reopened |-> "no", chunksCreated |-> 0]
  /\ disk = [chunk |-> NoChunk, summed |-> 0, group |-> FALSE, document |-> FALSE]
  /\ outcome = "none"

NextResource ==
  /\ stage' = "resource"
  /\ at' = at + 1

\* "No file to process".
SkipResource ==
  /\ stage = "resource"
  /\ MoreResources
  /\ ~Resource.located
  /\ NextResource
  /\ spans' = Append(spans, [from |-> read, to |-> read])
  /\ UNCHANGED <<group, chunkSize, input, data, read, stream, disk, outcome>>

\* GetDataStream.
OpenResource ==
  /\ stage = "resource"
  /\ MoreResources
  /\ Resource.located
  /\ \/ /\ stage' = "stream"
        /\ input' = [position |-> 0, reading |-> TRUE, broken |-> FALSE]
        /\ UNCHANGED outcome
     \/ /\ Finish("FAILED_TO_OPEN_FILE")
        /\ UNCHANGED input
  /\ UNCHANGED <<group, chunkSize, at, data, read, spans, stream, disk>>

\* A plausible slip: the last piece is not cut at the end of the file.
PieceInFull == ReadSize

\* FileDataStreamIn >>: the next piece; the stream ends with the last one.
PieceSize == Least(ReadSize, Resource.length - input.position)

ReadPiece ==
  input' = [input EXCEPT !.position = @ + PieceSize,
                         !.reading  = input.position + PieceSize # Resource.length]

\* InitializeOutputStreams: raw file number chunksCreated, empty, from where
\* the one before it ends; and the compressed file after it.
Initialized(s) ==
  LET n == s.chunksCreated
      WithRaw(opened) ==
        [s EXCEPT !.opened = opened,
                  !.raws = Append(SubSeq(@, 1, n), IF n = 0 THEN 0 ELSE @[n])]
  IN  {WithRaw("yes")}
    \cup (IF DiskMayFail
          THEN {[s EXCEPT !.opened = "noRaw"], WithRaw("noCompressed")} ELSE {})

\* A plausible slip: an empty file does not start the stream.
StreamNeededForBytes == ~stream.started /\ PieceSize > 0

StreamNeeded == ~stream.started

\* The loop of BundleStreamOut <<.  When the streams cannot be opened it
\* returns false with the piece, and CreateBundle does not look.
StreamRead ==
  /\ stage = "stream"
  /\ data = 0
  /\ input.reading
  /\ ReadPiece
  /\ IF StreamNeeded
     THEN \E s \in Initialized([stream EXCEPT !.started = TRUE]) :
            IF s.opened = "yes"
            THEN stream' = s /\ data' = PieceSize /\ UNCHANGED stage
            ELSE /\ stream' = [s EXCEPT !.dropped = PieceSize]
                 /\ data' = 0
                 /\ stage' = "drain"
     ELSE data' = PieceSize /\ UNCHANGED <<stage, stream>>
  /\ read' = read + PieceSize
  /\ UNCHANGED <<group, chunkSize, at, spans, disk, outcome>>

\* A read fails: << returns true all the same.
ReadFails ==
  /\ DiskMayFail
  /\ stage = "stream"
  /\ data = 0
  /\ input.reading
  /\ stage' = "drain"
  /\ input' = [input EXCEPT !.broken = TRUE]
  /\ UNCHANGED <<group, chunkSize, at, data, read, spans, stream, disk, outcome>>

\* A plausible slip: the size is tested before the buffer is cleared.
CompressedBeforeClear(emitted) == emitted

\* The size of m_compressedData after a piece: it was written and cleared.
CompressedHeld(emitted) == 0

Flushed(s) ==
  IF s.started THEN [s EXCEPT !.chunksCreated = @ + 1, !.started = FALSE] ELSE s

\* What of n bytes gets to the raw file.
Written(s, n) ==
  IF s.lost THEN {s}
  ELSE {[s EXCEPT !.raws[Len(s.raws)] = @ + n]}
         \cup (IF DiskMayFail
               THEN {[s EXCEPT !.raws[Len(s.raws)] = @ + k, !.lost = TRUE] :
                       k \in 0..(n - 1)}
               ELSE {})

\* A stream that could not be opened takes writes, a stream that was never
\* made does not: the compressed one is made after the raw one is open.
StreamsExist == stream.opened \in {"yes", "noCompressed"}

\* One turn of the inner loop of <<: chunkSize bytes are compressed and
\* written, the deflater emitting what it likes; no write is checked.
StreamWrite ==
  /\ stage = "stream"
  /\ data > 0
  /\ StreamsExist
  /\ LET n == Least(chunkSize, data)
         Kept(s, emitted) == IF CompressedHeld(emitted) >= chunkSize
                             THEN Initialized(Flushed(s)) ELSE {s}
     IN  \E s \in Written(stream, n), emitted \in 0..n : \E t \in Kept(s, emitted) :
           /\ stream' = t
           /\ IF t.opened = "yes" \/ t = s
              THEN data' = data - n /\ UNCHANGED stage
              ELSE data' = 0 /\ stage' = "drain"
  /\ UNCHANGED <<group, chunkSize, at, input, read, spans, disk, outcome>>

\* The raw file was not opened, and there is no compressed stream to write to.
WriteToNothing ==
  /\ stage = "stream"
  /\ data > 0
  /\ ~StreamsExist
  /\ Finish("crash")
  /\ UNCHANGED <<group, chunkSize, at, input, data, read, spans, stream, disk>>

\* The loop of CreateBundle over a stream that << has left unfinished.  A
\* chunk that is ready is exported, and found ready again, for ever.
DrainRead ==
  /\ stage = "drain"
  /\ input.reading
  /\ IF input.broken
     THEN Finish("FAILED_TO_READ_FROM_STREAM") /\ UNCHANGED <<input, read, stream>>
     ELSE \/ /\ ReadPiece
             /\ read' = read + PieceSize
             /\ stream' = [stream EXCEPT !.dropped = @ + PieceSize]
             /\ stage' = IF stream.chunksCreated = ChunksExported
                         THEN stage ELSE "endless"
             /\ UNCHANGED outcome
          \/ /\ Finish("FAILED_TO_READ_FROM_STREAM")
             /\ UNCHANGED <<input, read, stream>>
  /\ UNCHANGED <<group, chunkSize, at, data, spans, disk>>

EndOfResource ==
  /\ stage \in {"stream", "drain"}
  /\ data = 0
  /\ ~input.reading
  /\ NextResource
  /\ spans' = Append(spans, [from |-> read - Resource.length, to |-> read])
  /\ UNCHANGED <<group, chunkSize, input, data, read, stream, disk, outcome>>

\* AddChunkFilesToGetChunk: both files are opened for reading, and nothing
\* looks whether that went well.  A compressed file can be there although it
\* could not be written, left by a call that died.
Reopened(s) ==
  {[s EXCEPT !.reopened = r] : r \in {"yes"} \cup (IF DiskMayFail THEN {"failed"} ELSE {})}

\* Flush, and >> with clearCache, which finishes both output streams.
Clear ==
  /\ stage = "resource"
  /\ ~MoreResources
  /\ IF StreamsExist
     THEN stage' = "chunk" /\ stream' \in Reopened(Flushed(stream)) /\ UNCHANGED outcome
     ELSE Finish("crash") /\ UNCHANGED stream
  /\ UNCHANGED <<group, chunkSize, at, input, data, read, spans, disk>>

\* The loop that makes the checksum takes a read that fails, which gives the
\* whole file or nothing, for the end of the file.
Summed(length) == {length} \cup (IF DiskMayFail THEN {0} ELSE {})

\* ProcessChunk copies the raw file with number ChunksExported.
CopyChunk ==
  LET length == stream.raws[ChunksExported + 1]
  IN  \E n \in Summed(length) : disk' = [disk EXCEPT !.chunk = length, !.summed = n]

\* ProcessChunk without a stream to read, or to take a size from.
ChunkMissing ==
  /\ stage = "chunk"
  /\ stream.reopened = "failed"
  /\ Finish("crash")
  /\ UNCHANGED <<group, chunkSize, at, input, data, read, spans, stream, disk>>

\* A plausible slip: CreateBundle goes on after a chunk that was not saved.
ProcessChunkUnchecked ==
  /\ stage = "chunk"
  /\ stream.reopened = "yes"
  /\ \/ CopyChunk
     \/ DiskMayFail /\ UNCHANGED disk
  /\ stage' = "group"
  /\ UNCHANGED <<group, chunkSize, at, input, data, read, spans, stream, outcome>>

\* What is done to the destination before the copy throws what it finds
\* wrong; so does the look for the files in AddChunkFilesToGetChunk.
ProcessChunk ==
  /\ stage = "chunk"
  /\ stream.reopened = "yes"
  /\ \/ CopyChunk /\ stage' = "group" /\ UNCHANGED outcome
     \/ /\ DiskMayFail
        /\ \E code \in {"FAILED_TO_SAVE_FILE", "exception"} : Finish(code)
        /\ UNCHANGED disk
  /\ UNCHANGED <<group, chunkSize, at, input, data, read, spans, stream>>

PutGroup ==
  /\ stage = "group"
  /\ \/ /\ disk' = [disk EXCEPT !.group = TRUE]
        /\ stage' = "document"
        /\ UNCHANGED outcome
     \/ DiskMayFail /\ Finish("FAILED_TO_SAVE_FILE") /\ UNCHANGED disk
  /\ UNCHANGED <<group, chunkSize, at, input, data, read, spans, stream>>

PutDocument ==
  /\ stage = "document"
  /\ \/ disk' = [disk EXCEPT !.document = TRUE] /\ Finish("SUCCESS")
     \/ DiskMayFail /\ Finish("FAILED_TO_SAVE_FILE") /\ UNCHANGED disk
  /\ UNCHANGED <<group, chunkSize, at, input, data, read, spans, stream>>

CreateNext ==
  \/ SkipResource
  \/ OpenResource
  \/ StreamRead
  \/ ReadFails
  \/ StreamWrite
  \/ WriteToNothing
  \/ DrainRead
  \/ EndOfResource
  \/ Clear
  \/ ChunkMissing
  \/ ProcessChunk
  \/ PutGroup
  \/ PutDocument

CreateSpec == CreateInit /\ [][CreateNext]_createVars
--------------------------------------------------------------------------
\* Where a byte is in the chunk: those that were dropped are the first ones,
\* as the streams are opened once.
InChunk(position) ==
  IF position <= stream.dropped THEN 0 ELSE position - stream.dropped

\* The bundle another process can read: the group with where its files are,
\* and the chunk.
Created ==
  [chunkSize |-> chunkSize,
   ends |-> <<disk.chunk>>,
   files |-> [f \in DOMAIN group |->
                LET from == InChunk(spans[f].from)
                    to   == InChunk(spans[f].to)
                IN  [located |-> group[f].located, size |-> group[f].size,
                     from |-> from, to |-> to,
                     faithful |-> group[f].faithful /\ to - from = group[f].length]]]
--------------------------------------------------------------------------
\* The members have their types, no piece is read beyond the end of a file,
\* and there is a span for every resource the loop has passed.
CreateTypeOK ==
  /\ group \in Seq(Entries)
  /\ chunkSize \in ChunkSizes
  /\ stage \in {"resource", "stream", "drain", "chunk", "group", "document", "done"}
  /\ at \in 1..(Len(group) + 1)
  /\ stage \in {"stream", "drain"} => at <= Len(group)
  /\ input.position \in Nat
  /\ input.reading => input.position < Resource.length \/ input.position = 0
  /\ data \in 0..ReadSize
  /\ read \in Nat
  /\ Len(spans) = at - 1
  /\ stream \in Stream
  /\ disk.chunk \in Nat \cup {NoChunk}
  /\ disk.document \in BOOLEAN

\* When CreateBundle returns SUCCESS and the disk opened its streams and lost
\* nothing, the chunk has all the bytes of all the files, although the return
\* value of the stream is never looked at and only its first chunk is ever
\* exported.
ChunkIsWhole ==
  outcome = "SUCCESS" /\ ~stream.lost /\ stream.opened = "yes" =>
    disk.chunk = read

\* The call crashes in three cases only: it has nothing to put into a chunk,
\* the raw file could not be opened for writing, or a file of the chunk was
\* gone or could not be opened again for reading.
CrashExplained ==
  outcome = "crash" =>
    \/ \A f \in DOMAIN group : ~group[f].located
    \/ stream.opened = "noRaw"
    \/ stream.reopened = "failed"

\* A bundle document in its destination has its chunk and its group in
\* theirs, whatever failed.
DocumentLast == disk.document => disk.chunk # NoChunk /\ disk.group

\* The checksum a bundle document records of its chunk is, in the words of
\* resourceGroupFileFormat.rst, the "data checksum of the uncompressed
\* resource".
ChunkChecksummed == disk.document => disk.summed = disk.chunk

\* No chunk is longer than --chunk-size, "the maximum size of the produced
\* chunks in bytes".
ChunkWithinSize == disk.chunk # NoChunk => disk.chunk <= chunkSize
==========================================================================

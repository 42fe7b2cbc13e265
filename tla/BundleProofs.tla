--------------------------- MODULE BundleProofs ---------------------------
(***************************************************************************)
(* Proofs about BundleUnpack, for every set of bundles that are WellCut,   *)
(* of any number and size of files and chunks; then about BundleCreate and *)
(* Bundle, for every group, chunk size and size of pieces.  What is proved *)
(* of one step of Unpack is used for the steps of Unpack in Bundle.        *)
(***************************************************************************)
EXTENDS Bundle, TLAPS

(* BundleUnpack.                                                           *)

SafeSpec == Init /\ [][Next]_vars
--------------------------------------------------------------------------
(* What WellCut says of one file and of one chunk.                         *)

LEMMA FileFacts ==
  ASSUME NEW b, WellCut(b), NEW f \in 1..Len(b.files)
  PROVE  /\ b.files[f] \in BundleFile
         /\ b.files[f].located \in BOOLEAN
         /\ b.files[f].faithful \in BOOLEAN
         /\ b.files[f].size \in Nat
         /\ b.files[f].from \in Nat
         /\ b.files[f].to \in Nat
         /\ b.files[f].from <= b.files[f].to
         /\ b.files[f].from = Boundary(b, f)
         /\ b.files[f].to = Boundary(b, f + 1)
         /\ ~b.files[f].located => b.files[f].to = b.files[f].from
         /\ b.files[f].faithful => b.files[f].size = b.files[f].to - b.files[f].from
  <1>1. b.files \in Seq(BundleFile) /\ DOMAIN b.files = 1..Len(b.files)
    BY DEF WellCut
  <1>2. b.files[f] \in BundleFile
    BY <1>1
  <1>3. Boundary(b, f + 1) = b.files[f].to
    BY <1>1 DEF Boundary
  <1> QED
    BY <1>1, <1>2, <1>3 DEF WellCut, BundleFile

LEMMA ChunkFacts ==
  ASSUME NEW b, WellCut(b), NEW c \in 1..Len(b.ends)
  PROVE  /\ ChunkEnd(b, c - 1) \in Nat
         /\ ChunkEnd(b, c) \in Nat
         /\ ChunkLength(b, c) \in Nat
         /\ ChunkEnd(b, c) = ChunkEnd(b, c - 1) + ChunkLength(b, c)
         /\ c < Len(b.ends) => b.chunkSize <= ChunkLength(b, c)
  <1>1. b.ends \in Seq(Nat) /\ DOMAIN b.ends = 1..Len(b.ends) /\ Len(b.ends) \in Nat
    BY DEF WellCut
  <1>2. ChunkEnd(b, c) = b.ends[c] /\ b.ends[c] \in Nat
    BY <1>1 DEF ChunkEnd
  <1>3. ChunkEnd(b, c - 1) \in Nat
    BY <1>1 DEF ChunkEnd
  <1>4. ChunkEnd(b, c - 1) <= b.ends[c]
    BY <1>1 DEF WellCut
  <1>5. c < Len(b.ends) => b.chunkSize <= ChunkLength(b, c)
    BY <1>1 DEF WellCut
  <1> QED
    BY <1>2, <1>3, <1>4, <1>5 DEF ChunkLength
--------------------------------------------------------------------------
(* Types.                                                                  *)

LEMMA TypeInit == Init => TypeOK
  <1> SUFFICES ASSUME Init PROVE TypeOK
    OBVIOUS
  <1>1. WellCut(bundle)
    BY BundlesAssumption DEF Init
  <1>2. Len(bundle.files) \in Nat /\ Len(bundle.ends) \in Nat
    BY <1>1 DEF WellCut
  <1>3. source \in {"LOCAL_CDN", "REMOTE_CDN"}
    BY SourcesAssumption DEF Init
  <1>4. output \in [DOMAIN bundle.files -> {"absent", "partial", "good", "short"}]
    BY DEF Init
  <1>5. index \in 1..(Len(bundle.files) + 1) /\ next \in 1..(Len(bundle.ends) + 1)
    BY <1>2 DEF Init
  <1>6. /\ pc = "idle" /\ fetched = 0 /\ taken = 0 /\ from = 0 /\ dataRead = 0
        /\ sound = 0 /\ result = "none"
    BY DEF Init
  <1>7. intact \in BOOLEAN /\ faulted \in BOOLEAN
    BY DEF Init
  <1> QED
    BY <1>1, <1>3, <1>4, <1>5, <1>6, <1>7 DEF TypeOK, Codes

\* The file the loops are at, once they have one.
LEMMA CurrentFile ==
  ASSUME TypeOK, MoreFiles
  PROVE  index \in 1..Len(bundle.files) /\ File.size \in Nat
  BY FileFacts DEF TypeOK, MoreFiles, File

\* `>>` gives what is there at most, and m_dataReadOfCurrentFile stays a
\* number.
LEMMA TakenFacts ==
  ASSUME TypeOK, pc = "take"
  PROVE  /\ Taken \in Nat
         /\ Taken <= CacheSize
         /\ DataReadAfter(IsLastPiece) \in Nat
  <1>1. File.size \in Nat
    BY CurrentFile DEF TypeOK, MoreFiles
  <1>2. bundle.chunkSize \in Nat
    BY DEF TypeOK, WellCut
  <1> QED
    BY <1>1, <1>2 DEF TypeOK, Taken, Wanted, CacheSize, DataReadAfter

LEMMA TypeNext == TypeOK /\ [Next]_vars => TypeOK'
  <1> SUFFICES ASSUME TypeOK, [Next]_vars PROVE TypeOK'
    OBVIOUS
  <1>a. Len(bundle.files) \in Nat /\ Len(bundle.ends) \in Nat
    BY DEF TypeOK, WellCut
  <1>b. DOMAIN bundle.files = 1..Len(bundle.files)
    BY DEF TypeOK, WellCut
  <1>c. ASSUME NEW code \in Codes, Fail(code) PROVE TypeOK'
    BY <1>c DEF TypeOK, Fail, Return, reading
  <1>1. ASSUME NEW s \in SourceTypes, Call(s) PROVE TypeOK'
    <2>1. source' \in {"LOCAL_CDN", "REMOTE_CDN"}
      BY <1>1, SourcesAssumption DEF Call
    <2>2. index' \in 1..(Len(bundle.files) + 1) /\ next' \in 1..(Len(bundle.ends) + 1)
      BY <1>1, <1>a DEF Call
    <2>3. /\ pc' = "group" /\ fetched' = 0 /\ taken' = 0 /\ from' = 0 /\ dataRead' = 0
          /\ sound' = 0 /\ result' = "none" /\ UNCHANGED bundle
          /\ output' = [f \in DOMAIN bundle.files |-> "absent"]
      BY <1>1 DEF Call
    <2>4. intact' \in BOOLEAN /\ faulted' \in BOOLEAN
      BY <1>1 DEF Call
    <2> QED
      BY <2>1, <2>2, <2>3, <2>4 DEF TypeOK, Codes
  <1>2. CASE ReadGroup
    BY <1>2, <1>c DEF TypeOK, ReadGroup, reading, Codes
  <1>3. CASE SkipFile
    BY <1>3, <1>a DEF TypeOK, SkipFile, MoreFiles, reading
  <1>4. CASE OpenOutput
    <2>1. CASE Fail("FAILED_TO_SAVE_FILE")
      BY <2>1, <1>c DEF Codes
    <2>2. CASE ~Fail("FAILED_TO_SAVE_FILE")
      <3>1. /\ pc' = "fill"
            /\ from' = taken
            /\ output' = [output EXCEPT ![index] = "partial"]
            /\ UNCHANGED <<bundle, source, index, reading, faulted, result>>
            /\ index <= Len(bundle.files)
        BY <2>2, <1>4 DEF OpenOutput, MoreFiles
      <3>2. output' \in [DOMAIN bundle.files -> {"absent", "partial", "good", "short"}]
        BY <3>1 DEF TypeOK
      <3> QED
        BY <3>1, <3>2 DEF TypeOK, reading
    <2> QED
      BY <2>1, <2>2
  <1>5. CASE FetchChunk
    <2> DEFINE length == ChunkLength(bundle, next)
    <2>1. length \in Nat
      BY <1>5, <1>a, ChunkFacts DEF TypeOK, FetchChunk, MoreChunks
    <2>2. CASE Fail("FAILED_TO_OPEN_FILE")
      BY <2>2, <1>c DEF Codes
    <2>3. ASSUME NEW n \in Nat, NEW m \in 0..n, AppendToCache(m, n),
                 intact' \in BOOLEAN, faulted' \in BOOLEAN
          PROVE  TypeOK'
      BY <1>5, <1>a, <2>1, <2>3
      DEF TypeOK, AppendToCache, FetchChunk, MoreChunks
    <2>4. CASE AppendToCache(length, length) /\ UNCHANGED <<intact, faulted>>
      BY <2>1, <2>3, <2>4 DEF TypeOK
    <2>5. CASE /\ \E damage \in Damages(length) :
                    AppendToCache(damage[1], damage[2])
               /\ intact' = FALSE
               /\ faulted' = TRUE
      <3>1. PICK damage \in Damages(length) :
              AppendToCache(damage[1], damage[2])
        BY <2>5
      <3>2. damage[2] \in Nat /\ damage[1] \in 0..damage[2]
        BY <2>1, ExcessAssumption DEF Damages
      <3> QED
        BY <2>3, <2>5, <3>1, <3>2
    <2> QED
      BY <1>5, <2>2, <2>4, <2>5 DEF FetchChunk
  <1>6. CASE NoMoreChunks
    BY <1>6 DEF TypeOK, NoMoreChunks, Return, reading, Codes
  <1>7. CASE Take
    <2>1. CASE Fail("FAILED_TO_SAVE_TO_STREAM")
      BY <2>1, <1>c DEF Codes
    <2>2. CASE CacheSize = 0 /\ ~Fail("FAILED_TO_SAVE_TO_STREAM")
      BY <2>2, <1>7 DEF TypeOK, Take, Return, reading, Codes
    <2>3. CASE CacheSize > 0 /\ ~Fail("FAILED_TO_SAVE_TO_STREAM")
      <3>1. pc = "take"
        BY <1>7 DEF Take
      <3>2. Taken \in Nat /\ Taken <= fetched - taken /\ DataReadAfter(IsLastPiece) \in Nat
        BY <3>1, TakenFacts DEF CacheSize
      <3>3. /\ pc' = "fill"
            /\ taken' = taken + Taken
            /\ dataRead' = DataReadAfter(IsLastPiece)
            /\ UNCHANGED <<bundle, output, source, index, from, next, fetched,
                           intact, sound, faulted, result>>
        BY <2>3, <1>7 DEF Take, TypeOK, CacheSize
      <3>4. taken' \in Nat /\ taken' <= fetched /\ from <= taken'
        BY <3>2, <3>3 DEF TypeOK
      <3> QED
        BY <3>1, <3>2, <3>3, <3>4 DEF TypeOK
    <2> QED
      BY <2>1, <2>2, <2>3, <1>7 DEF Take
  <1>8. CASE CloseFile
    <2>1. PICK state \in Closed : output' = [output EXCEPT ![index] = state]
      BY <1>8 DEF CloseFile
    <2>2. output' \in [DOMAIN bundle.files -> {"absent", "partial", "good", "short"}]
      BY <2>1 DEF TypeOK, Closed
    <2> QED
      BY <1>8, <1>a, <1>b, <2>2 DEF TypeOK, CloseFile, Return, reading, Codes
  <1>9. CASE ExportGroup
    BY <1>9, <1>c DEF TypeOK, ExportGroup, Return, reading, Codes
  <1>10. CASE UNCHANGED vars
    BY <1>10 DEF TypeOK, vars
  <1> QED
    BY <1>1, <1>2, <1>3, <1>4, <1>5, <1>6, <1>7, <1>8, <1>9, <1>10
    DEF Next, Proceed

\* The cache is never negative and the state keeps its types: the type
\* invariant of Unpack holds for all bundles.
THEOREM TypeCorrect == SafeSpec => []TypeOK
  BY TypeInit, TypeNext, PTL DEF SafeSpec
--------------------------------------------------------------------------
(* What SUCCESS means.                                                     *)

\* All files the loop has passed were given what was recorded.
PassedAreGood ==
  pc # "idle" =>
    \A f \in DOMAIN bundle.files :
      f < index /\ bundle.files[f].located => output[f] \in {"good", "short"}

RestoreInv == TypeOK /\ PassedAreGood /\ UnpackRestores

LEMMA RestoreInit == Init => RestoreInv
  BY TypeInit DEF Init, RestoreInv, PassedAreGood, UnpackRestores

LEMMA RestoreNext == RestoreInv /\ [Next]_vars => RestoreInv'
  <1> SUFFICES ASSUME RestoreInv, [Next]_vars PROVE (PassedAreGood /\ UnpackRestores)'
    BY TypeNext DEF RestoreInv
  <1> USE DEF PassedAreGood, UnpackRestores
  <1>a. TypeOK
    BY DEF RestoreInv
  <1>b. /\ index \in Nat /\ Len(bundle.files) \in Nat
        /\ DOMAIN bundle.files = 1..Len(bundle.files)
    BY <1>a DEF TypeOK, WellCut
  <1>c. ASSUME NEW code, code # "SUCCESS", Fail(code)
        PROVE  (PassedAreGood /\ UnpackRestores)'
    BY <1>c DEF Fail, Return
  <1>1. ASSUME NEW s \in SourceTypes, Call(s) PROVE (PassedAreGood /\ UnpackRestores)'
    BY <1>1, <1>b DEF Call
  <1>2. CASE ReadGroup
    BY <1>2, <1>c DEF ReadGroup, RestoreInv
  <1>3. CASE SkipFile
    BY <1>3, <1>b DEF SkipFile, File, RestoreInv
  <1>4. CASE OpenOutput
    <2>1. CASE Fail("FAILED_TO_SAVE_FILE")
      BY <2>1, <1>c
    <2>2. CASE ~Fail("FAILED_TO_SAVE_FILE")
      BY <2>2, <1>4, <1>a, <1>b DEF OpenOutput, RestoreInv, TypeOK
    <2> QED
      BY <2>1, <2>2
  <1>5. CASE FetchChunk
    <2>1. CASE Fail("FAILED_TO_OPEN_FILE")
      BY <2>1, <1>c
    <2>2. ASSUME NEW m, NEW n, AppendToCache(m, n)
          PROVE  (PassedAreGood /\ UnpackRestores)'
      BY <2>2, <1>5 DEF AppendToCache, FetchChunk, RestoreInv
    <2> QED
      BY <1>5, <2>1, <2>2 DEF FetchChunk
  <1>6. CASE NoMoreChunks
    BY <1>6 DEF NoMoreChunks, Return, RestoreInv
  <1>7. CASE Take
    BY <1>7, <1>c DEF Take, Return, RestoreInv
  <1>8. CASE CloseFile
    <2>1. PICK state \in Closed : output' = [output EXCEPT ![index] = state]
      BY <1>8 DEF CloseFile
    <2>2. bundle' = bundle /\ pc = "fill"
      BY <1>8 DEF CloseFile
    <2>3. CASE Genuine
      <3>1. pc' = "file" /\ index' = index + 1
        BY <1>8, <2>3 DEF CloseFile, ChecksumMatches
      <3>2. ASSUME NEW f \in DOMAIN bundle.files, f < index + 1, bundle.files[f].located
            PROVE  output'[f] \in {"good", "short"}
        <4>1. CASE f = index
          BY <4>1, <2>1, <2>3, <1>a DEF TypeOK, Closed
        <4>2. CASE f < index
          BY <4>2, <2>1, <2>2, <3>2, <1>a, <1>b DEF TypeOK, RestoreInv
        <4> QED
          BY <4>1, <4>2, <3>2, <1>b
      <3> QED
        BY <3>1, <3>2, <2>2
    <2>4. CASE ~Genuine
      BY <1>8, <2>4 DEF CloseFile, ChecksumMatches, Return
    <2> QED
      BY <2>3, <2>4
  <1>9. CASE ExportGroup
    <2>1. CASE Fail("FAILED_TO_SAVE_FILE")
      BY <2>1, <1>c
    <2>2. CASE ~Fail("FAILED_TO_SAVE_FILE")
      BY <2>2, <1>9, <1>b DEF ExportGroup, Return, MoreFiles, RestoreInv
    <2> QED
      BY <2>1, <2>2
  <1>10. CASE UNCHANGED vars
    BY <1>10 DEF vars, RestoreInv
  <1> QED
    BY <1>1, <1>2, <1>3, <1>4, <1>5, <1>6, <1>7, <1>8, <1>9, <1>10
    DEF Next, Proceed

\* Unpack returns SUCCESS only with every file restored, for all bundles,
\* faithful or not, and all failures and damaged chunks.
THEOREM RestoresCorrect == SafeSpec => []UnpackRestores
  <1>1. RestoreInv => UnpackRestores
    BY DEF RestoreInv
  <1> QED
    BY <1>1, RestoreInit, RestoreNext, PTL DEF SafeSpec
--------------------------------------------------------------------------
(* A faithful bundle is unpacked.                                          *)

\* All that was fetched is genuine, up to the end of a chunk.
FetchedIsSound ==
  intact /\ sound = fetched /\ fetched = ChunkEnd(bundle, next - 1)

\* Between two files the cache begins where the next file does.
BetweenFiles == taken = Boundary(bundle, index) /\ dataRead = 0

\* In a file m_dataReadOfCurrentFile is what was written of it, until the
\* last piece resets it.
Filling == dataRead = FileSize /\ FileSize < File.size

Filled == dataRead = 0 /\ FileSize = File.size

InFile ==
  /\ File.located
  /\ from = File.from
  /\ IF pc = "take" THEN Filling ELSE Filling \/ Filled

\* The cache holds a full piece, or all that is left.
Enough == next > Len(bundle.ends) \/ bundle.chunkSize <= CacheSize

CleanInv ==
  Faithful(bundle) /\ ~faulted =>
    /\ pc # "idle" => FetchedIsSound
    /\ pc = "group" => index = 1
    /\ pc \in {"group", "file"} => BetweenFiles
    /\ pc \in {"fill", "take"} => InFile
    /\ pc = "take" => Enough
    /\ pc = "idle" => result \in {"none", "SUCCESS"}

LEMMA CleanInit == Init => CleanInv
  BY DEF Init, CleanInv

\* The current file of a faithful bundle, and how far it reaches.
LEMMA FaithfulFile ==
  ASSUME TypeOK, Faithful(bundle), index <= Len(bundle.files)
  PROVE  /\ File.size \in Nat /\ File.from \in Nat /\ File.to \in Nat
         /\ File.from = Boundary(bundle, index)
         /\ File.to = Boundary(bundle, index + 1)
         /\ ~File.located => File.to = File.from
         /\ File.located => File.faithful /\ File.to = File.from + File.size
         /\ File.to <= ChunkEnd(bundle, Len(bundle.ends))
  <1>1. index \in 1..Len(bundle.files) /\ DOMAIN bundle.files = 1..Len(bundle.files)
    BY DEF TypeOK, WellCut
  <1>2. WellCut(bundle)
    BY DEF TypeOK
  <1>3. /\ File.size \in Nat /\ File.from \in Nat /\ File.to \in Nat
        /\ File.from = Boundary(bundle, index)
        /\ File.to = Boundary(bundle, index + 1)
        /\ ~File.located => File.to = File.from
        /\ File.faithful => File.size = File.to - File.from
    BY <1>1, <1>2, FileFacts DEF File
  <1>4. /\ File.located => File.faithful
        /\ File.to <= ChunkEnd(bundle, Len(bundle.ends))
    BY <1>1 DEF Faithful, File
  <1>5. File.located => File.to = File.from + File.size
    BY <1>3, <1>4
  <1> QED
    BY <1>3, <1>4, <1>5

\* The piece `>>` gives of a cache with enough in it is the piece it wants,
\* and the next one begins behind it.
LEMMA TakeFacts ==
  ASSUME TypeOK, Faithful(bundle), pc = "take", FetchedIsSound, InFile, Enough
  PROVE  /\ CacheSize > 0
         /\ IF IsLastPiece
            THEN /\ taken + Taken - from = File.size
                 /\ DataReadAfter(IsLastPiece) = 0
            ELSE /\ taken + Taken - from < File.size
                 /\ DataReadAfter(IsLastPiece) = taken + Taken - from
  <1>1. /\ File.size \in Nat /\ File.from \in Nat
        /\ File.to = File.from + File.size
        /\ File.to <= ChunkEnd(bundle, Len(bundle.ends))
    BY FaithfulFile DEF TypeOK, InFile
  <1>2. /\ fetched \in Nat /\ taken \in Nat /\ from \in Nat /\ dataRead \in Nat
        /\ taken <= fetched /\ from <= taken
        /\ bundle.chunkSize \in Nat /\ bundle.chunkSize > 0
    BY DEF TypeOK, WellCut
  <1>3. from = File.from /\ dataRead = taken - from /\ taken - from < File.size
    BY DEF InFile, Filling, FileSize
  <1>4. taken < File.to
    BY <1>1, <1>2, <1>3
  <1>5. next > Len(bundle.ends) => fetched = ChunkEnd(bundle, Len(bundle.ends))
    <2>1. next \in 1..(Len(bundle.ends) + 1) /\ Len(bundle.ends) \in Nat
      BY DEF TypeOK, WellCut
    <2>2. next > Len(bundle.ends) => next - 1 = Len(bundle.ends)
      BY <2>1
    <2> QED
      BY <2>2 DEF FetchedIsSound
  <1>6. File.to <= fetched \/ bundle.chunkSize <= fetched - taken
    BY <1>1, <1>5 DEF Enough, CacheSize
  <1>7. CacheSize > 0
    BY <1>2, <1>4, <1>6, <1>1 DEF CacheSize
  <1>8. CASE IsLastPiece
    <2> DEFINE left == File.size - dataRead
    <2>a. left = File.to - taken /\ left \in Nat
      BY <1>1, <1>2, <1>3, <1>4
    <2>b. left <= bundle.chunkSize
      BY <1>8, <1>1, <1>2 DEF IsLastPiece
    <2>1. Wanted = left
      BY <1>8, <1>1, <1>2, <1>3 DEF Wanted
    <2>2. left <= CacheSize
      BY <2>a, <2>b, <1>1, <1>2, <1>6 DEF CacheSize
    <2>3. Taken = left
      BY <2>1, <2>2, <2>a, <1>2 DEF Taken, CacheSize
    <2>4. DataReadAfter(IsLastPiece) = 0
      BY <1>8 DEF DataReadAfter
    <2>5. taken + left - from = File.size
      <3>1. File.size \in Nat /\ dataRead = taken - from
        BY <1>1, <1>3
      <3> QED
        BY <3>1, <1>2
    <2> QED
      BY <1>7, <1>8, <2>3, <2>4, <2>5
  <1>9. CASE ~IsLastPiece
    <2>1. Wanted = bundle.chunkSize
      BY <1>9 DEF Wanted
    <2>2. bundle.chunkSize <= CacheSize
      BY <1>9, <1>1, <1>2, <1>3, <1>6 DEF IsLastPiece, CacheSize
    <2>3. Taken = bundle.chunkSize
      BY <2>1, <2>2, <1>2 DEF Taken, CacheSize
    <2>4. DataReadAfter(IsLastPiece) = dataRead + bundle.chunkSize
      BY <1>9 DEF DataReadAfter
    <2>5. dataRead + bundle.chunkSize < File.size
      BY <1>9, <1>1, <1>2 DEF IsLastPiece
    <2> QED
      BY <1>9, <2>3, <2>4, <2>5, <1>2, <1>3, <1>7
  <1> QED
    BY <1>8, <1>9

LEMMA CleanNext == TypeOK /\ CleanInv /\ [Next]_vars => CleanInv'
  <1> SUFFICES ASSUME TypeOK, CleanInv, [Next]_vars, Faithful(bundle)', ~faulted'
               PROVE  CleanInv'
    BY DEF CleanInv
  <1>a. ~Fail("FAILED_TO_OPEN_FILE") /\ ~Fail("FAILED_TO_SAVE_FILE")
          /\ ~Fail("FAILED_TO_SAVE_TO_STREAM")
    BY DEF Fail
  <1>b. bundle' = bundle
    BY DEF Next, Proceed, Call, ReadGroup, SkipFile, OpenOutput, FetchChunk,
           AppendToCache, NoMoreChunks, Take, CloseFile, ExportGroup, Fail, vars
  <1>c. Faithful(bundle)
    BY <1>b
  <1>d. /\ Len(bundle.files) \in Nat /\ Len(bundle.ends) \in Nat
        /\ index \in Nat /\ next \in Nat /\ fetched \in Nat /\ taken \in Nat
        /\ from \in Nat /\ dataRead \in Nat /\ taken <= fetched /\ from <= taken
        /\ next <= Len(bundle.ends) + 1
        /\ next >= 1
    BY DEF TypeOK, WellCut
  <1> USE DEF CleanInv
  <1>1. ASSUME NEW s \in SourceTypes, Call(s) PROVE CleanInv'
    <2>1. FetchedIsSound'
      BY <1>1 DEF Call, FetchedIsSound, ChunkEnd
    <2>2. BetweenFiles'
      BY <1>1 DEF Call, BetweenFiles, Boundary
    <2> QED
      BY <1>1, <2>1, <2>2 DEF Call
  <1>2. CASE ReadGroup
    <2>1. pc = "group" /\ pc' = "file"
          /\ UNCHANGED <<bundle, output, source, index, from, reading, faulted, result>>
      BY <1>2, <1>a DEF ReadGroup
    <2> QED
      BY <2>1, <1>c DEF FetchedIsSound, BetweenFiles, reading
  <1>3. CASE SkipFile
    <2>1. /\ pc = "file" /\ index <= Len(bundle.files) /\ ~File.located
          /\ index' = index + 1
          /\ UNCHANGED <<bundle, output, pc, source, from, reading, faulted, result>>
      BY <1>3 DEF SkipFile, MoreFiles
    <2>2. Boundary(bundle, index + 1) = Boundary(bundle, index)
      BY <2>1, <1>c, FaithfulFile
    <2> QED
      BY <2>1, <2>2, <1>c DEF FetchedIsSound, BetweenFiles, reading
  <1>4. CASE OpenOutput
    <2>1. /\ pc = "file" /\ index <= Len(bundle.files) /\ File.located
          /\ pc' = "fill"
          /\ from' = taken
          /\ UNCHANGED <<bundle, source, index, reading, faulted, result>>
      BY <1>4, <1>a DEF OpenOutput, MoreFiles
    <2>2. File.from = Boundary(bundle, index) /\ File.size \in Nat
      BY <2>1, <1>c, FaithfulFile
    <2>3. BetweenFiles /\ FetchedIsSound
      BY <2>1, <1>c DEF reading
    <2>4. FileSize' = 0 /\ dataRead' = 0 /\ File' = File /\ from' = File.from
      BY <2>1, <2>2, <2>3, <1>d DEF BetweenFiles, FileSize, File, reading
    <2>5. InFile'
      BY <2>1, <2>2, <2>4 DEF InFile, Filling, Filled
    <2> QED
      BY <2>1, <2>3, <2>5 DEF FetchedIsSound, reading
  <1>5. CASE FetchChunk
    <2> DEFINE length == ChunkLength(bundle, next)
    <2>1. /\ pc = "fill" /\ FileSize < File.size /\ next <= Len(bundle.ends)
          /\ AppendToCache(length, length) /\ UNCHANGED <<intact, faulted>>
      BY <1>5, <1>a DEF FetchChunk, MoreChunks
    <2>2. /\ pc' = "take" /\ next' = next + 1 /\ fetched' = fetched + length
          /\ sound' = IF intact THEN sound + length ELSE sound
          /\ UNCHANGED <<bundle, output, source, index, from, taken, dataRead, result>>
      BY <2>1 DEF AppendToCache
    <2>3. FetchedIsSound /\ InFile
      BY <2>1, <1>c
    <2>4. /\ length \in Nat
          /\ ChunkEnd(bundle, next) = ChunkEnd(bundle, next - 1) + length
          /\ next < Len(bundle.ends) => bundle.chunkSize <= length
      BY <2>1, <1>d, ChunkFacts DEF TypeOK
    <2>5. FetchedIsSound'
      <3>1. next' - 1 = next
        BY <2>2, <1>d
      <3> QED
        BY <2>1, <2>2, <2>3, <2>4, <3>1 DEF FetchedIsSound
    <2>6. InFile'
      BY <2>1, <2>2, <2>3, <1>d DEF InFile, Filling, Filled, FileSize, File
    <2>7. Enough'
      <3>1. CASE next = Len(bundle.ends)
        BY <3>1, <2>2, <1>d DEF Enough
      <3>2. CASE next < Len(bundle.ends)
        <4>1. bundle.chunkSize \in Nat
          BY DEF TypeOK, WellCut
        <4> QED
          BY <4>1, <3>2, <2>2, <2>4, <1>d DEF Enough, CacheSize
      <3> QED
        BY <3>1, <3>2, <2>1, <1>d
    <2> QED
      BY <2>2, <2>5, <2>6, <2>7
  <1>6. CASE NoMoreChunks
    <2>1. /\ pc = "fill" /\ FileSize < File.size /\ next > Len(bundle.ends)
          /\ UNCHANGED <<bundle, output, source, index, from, reading, faulted>>
      BY <1>6, <1>d DEF NoMoreChunks, MoreChunks
    <2>2. FetchedIsSound /\ InFile /\ index <= Len(bundle.files)
      BY <2>1, <1>c DEF TypeOK
    <2>3. next - 1 = Len(bundle.ends)
      BY <2>1, <1>d
    <2>4. fetched = ChunkEnd(bundle, Len(bundle.ends))
      BY <2>2, <2>3 DEF FetchedIsSound
    <2>5. /\ from = File.from /\ File.size \in Nat /\ File.from \in Nat
          /\ File.from + File.size <= fetched
      BY <2>2, <2>4, <1>c, FaithfulFile DEF InFile
    <2>6. CacheSize # 0
      BY <2>1, <2>5, <1>d DEF CacheSize, FileSize
    <2>7. pc' = "take" /\ UNCHANGED result
      BY <1>6, <2>6 DEF NoMoreChunks
    <2>8. InFile'
      BY <2>1, <2>2, <2>7, <1>d, <2>5 DEF InFile, Filling, Filled, FileSize, File, reading
    <2> QED
      BY <2>1, <2>2, <2>7, <2>8 DEF Enough, FetchedIsSound, reading
  <1>7. CASE Take
    <2>1. pc = "take"
      BY <1>7 DEF Take
    <2>2. FetchedIsSound /\ InFile /\ Enough
      BY <2>1, <1>c, <1>7, <1>a DEF Take, reading, Return
    <2>3. /\ CacheSize > 0
          /\ IF IsLastPiece
             THEN /\ taken + Taken - from = File.size
                  /\ DataReadAfter(IsLastPiece) = 0
             ELSE /\ taken + Taken - from < File.size
                  /\ DataReadAfter(IsLastPiece) = taken + Taken - from
      BY <2>1, <2>2, <1>c, TakeFacts
    <2>4. /\ pc' = "fill" /\ taken' = taken + Taken
          /\ dataRead' = DataReadAfter(IsLastPiece)
          /\ UNCHANGED <<bundle, output, source, index, from, next, fetched, intact,
                         sound, faulted, result>>
      BY <1>7, <2>3, <1>a DEF Take
    <2>5. Filling' \/ Filled'
      <3>0. taken' = taken + Taken /\ from' = from
        BY <2>4
      <3>a. Taken \in Nat
        BY <2>1, TakenFacts
      <3>b. FileSize' = taken + Taken - from
        BY <3>0, <3>a, <1>d DEF FileSize
      <3>1. FileSize' = taken + Taken - from /\ File' = File
        BY <3>b, <2>4 DEF File
      <3>2. CASE IsLastPiece
        BY <3>1, <3>2, <2>3, <2>4 DEF Filled
      <3>3. CASE ~IsLastPiece
        BY <3>1, <3>3, <2>3, <2>4 DEF Filling
      <3> QED
        BY <3>2, <3>3
    <2>6. InFile'
      BY <2>2, <2>4, <2>5 DEF InFile, File
    <2> QED
      BY <2>2, <2>4, <2>6 DEF FetchedIsSound
  <1>8. CASE CloseFile
    <2>1. pc = "fill" /\ FileSize >= File.size /\ index <= Len(bundle.files)
          /\ UNCHANGED <<bundle, source, from, reading, faulted>>
      BY <1>8 DEF CloseFile, TypeOK
    <2>2. FetchedIsSound /\ InFile
      BY <2>1, <1>c
    <2>3. /\ File.size \in Nat /\ File.from \in Nat /\ from = File.from
          /\ File.faithful
          /\ File.to = File.from + File.size
          /\ File.to = Boundary(bundle, index + 1)
      BY <2>1, <2>2, <1>c, FaithfulFile DEF InFile
    <2>4. Filled
      BY <2>1, <2>2, <2>3, <1>d DEF InFile, Filling, FileSize
    <2>5. Genuine
      BY <2>2, <2>3, <2>4, <1>d DEF Genuine, Filled, FetchedIsSound
    <2>6. pc' = "file" /\ index' = index + 1 /\ UNCHANGED result
      BY <1>8, <2>5 DEF CloseFile, ChecksumMatches
    <2>7. taken = Boundary(bundle, index + 1)
      BY <2>3, <2>4, <1>d DEF Filled, FileSize
    <2> QED
      BY <2>1, <2>2, <2>4, <2>6, <2>7 DEF FetchedIsSound, BetweenFiles, Filled, reading
  <1>9. CASE ExportGroup
    BY <1>9, <1>a DEF ExportGroup, Return
  <1>10. CASE UNCHANGED vars
    BY <1>10, <1>c DEF vars, FetchedIsSound, BetweenFiles, InFile, Filling, Filled,
       Enough, FileSize, File, CacheSize
  <1> QED
    BY <1>1, <1>2, <1>3, <1>4, <1>5, <1>6, <1>7, <1>8, <1>9, <1>10
    DEF Next, Proceed

\* A faithful bundle is unpacked wherever its files and chunks end: only a
\* failure outside the bundle makes Unpack fail.
THEOREM CleanCorrect == SafeSpec => []CleanUnpackSucceeds
  <1>1. CleanInv => CleanUnpackSucceeds
    BY DEF CleanInv, CleanUnpackSucceeds
  <1> QED
    BY <1>1, TypeInit, TypeNext, CleanInit, CleanNext, PTL DEF SafeSpec
--------------------------------------------------------------------------
(* BundleCreate: the inductive invariant of CreateBundle, in parts.        *)

Streaming == stage \in {"stream", "drain"}

\* End of the bytes of the resources the loop has passed.
Passed == IF at = 1 THEN 0 ELSE spans[at - 1].to

\* The loop and its input: where in the file it is, and what it left behind.
LoopInv ==
  /\ group \in Seq(Entries)
  /\ chunkSize \in ChunkSizes
  /\ stage \in {"resource", "stream", "drain", "chunk", "group", "document", "done"}
  /\ at \in 1..(Len(group) + 1)
  /\ input \in [position : Nat, reading : BOOLEAN, broken : BOOLEAN]
  /\ data \in 0..ReadSize
  /\ read \in Nat
  /\ Streaming =>
       /\ at <= Len(group)
       /\ Resource.located
       /\ input.position <= Resource.length
       /\ ~input.reading => input.position = Resource.length
       /\ read = Passed + input.position
  /\ input.reading =>
       /\ at <= Len(group)
       /\ input.position < Resource.length \/ input.position = 0
  /\ stage \in {"resource", "chunk", "group", "document"} =>
       /\ ~input.reading
       /\ data = 0
       /\ read = Passed
  /\ stage = "drain" => data = 0
  /\ stage \in {"chunk", "group", "document"} => at = Len(group) + 1

Span == [from : Nat, to : Nat]

\* Where the bytes of the resources are: side by side, and all of them.
SpansInv ==
  /\ spans \in Seq(Span)
  /\ Len(spans) = at - 1
  /\ \A f \in 1..Len(spans) :
       /\ spans[f].from = IF f = 1 THEN 0 ELSE spans[f - 1].to
       /\ spans[f].to = spans[f].from + group[f].length
       /\ spans[f].to <= Passed

\* The stream.  It is started once and has one raw file, which has all bytes
\* that were read but not yet written, unless a write was lost.  If there is
\* none, nothing was read.  The loop of CreateBundle reads on its own only
\* when there is none, or to find out that a read has failed.
StreamInv ==
  /\ stream \in Stream
  /\ stage \notin {"group", "document", "done"} =>
       stream.chunksCreated = IF stage = "chunk" THEN 1 ELSE 0
  /\ stream.opened = "no" =>
       /\ ~stream.started
       /\ stream.raws = <<>>
       /\ data = 0 /\ read = 0
       /\ \A f \in 1..(at - 1) : ~group[f].located
       /\ Streaming => input.reading
  /\ StreamsExist =>
       /\ Len(stream.raws) = 1
       /\ stage \in {"resource", "stream", "drain"} => stream.started
       /\ stage # "done" /\ ~stream.lost =>
            stream.raws[1] + data = read - stream.dropped
  /\ stream.opened = "noRaw" => stream.started
  /\ stream.opened \in {"no", "yes"} =>
       /\ stream.dropped = 0
       /\ stage = "drain" => input.broken /\ input.reading
  /\ stage \in {"chunk", "group", "document"} => StreamsExist

\* The disk: the chunk is the raw file, the document comes last.
DiskInv ==
  /\ disk \in [chunk : Nat \cup {NoChunk}, summed : Nat, group : BOOLEAN, document : BOOLEAN]
  /\ stage \in {"group", "document"} \/ outcome = "SUCCESS" =>
       /\ disk.chunk \in Nat
       /\ ~stream.lost => disk.chunk = read - stream.dropped
       /\ stream.opened = "yes" => stream.dropped = 0
  /\ stage = "document" => disk.group
  /\ outcome = "SUCCESS" =>
       /\ stage = "done"
       /\ disk.document /\ disk.group
       /\ at = Len(group) + 1
       /\ read = Passed
  /\ disk.document => outcome = "SUCCESS"
  /\ outcome = "crash" =>
       /\ stage = "done"
       /\ \/ stream.opened = "noRaw"
          \/ stream.reopened = "failed"
          \/ \A f \in 1..Len(group) : ~group[f].located

CreateInv == LoopInv /\ SpansInv /\ StreamInv /\ DiskInv
--------------------------------------------------------------------------
LEMMA InitCreate == CreateInit => CreateInv
  <1> SUFFICES ASSUME CreateInit PROVE CreateInv
    OBVIOUS
  <1>1. group \in Seq(Entries)
    <2>1. PICK n \in 0..MaxEntries : group \in [1..n -> Entries]
      BY DEF CreateInit
    <2> QED
      BY <2>1, EntriesAssumption
  <1>2. Len(group) \in Nat
    BY <1>1
  <1>3. LoopInv
    BY <1>1, <1>2, NumbersAssumption DEF CreateInit, LoopInv, Streaming, Passed
  <1>4. SpansInv
    BY DEF CreateInit, SpansInv
  <1>5. StreamInv
    BY DEF CreateInit, StreamInv, StreamsExist, Stream, Streaming
  <1>6. DiskInv
    BY DEF CreateInit, DiskInv
  <1> QED
    BY <1>3, <1>4, <1>5, <1>6 DEF CreateInv

\* What the group says of the resource the loop is at.
LEMMA ResourceFacts ==
  ASSUME LoopInv, at <= Len(group)
  PROVE  /\ Resource \in Entries
         /\ Resource.length \in Nat
         /\ Resource.located \in BOOLEAN
         /\ ~Resource.located => Resource.length = 0
  BY EntriesAssumption DEF LoopInv, Resource

\* A piece ends in the file.
LEMMA PieceFacts ==
  ASSUME LoopInv, Streaming
  PROVE  /\ PieceSize \in 0..ReadSize
         /\ input.position + PieceSize \in Nat
         /\ input.position + PieceSize <= Resource.length
         /\ input.position + PieceSize = Resource.length \/ PieceSize > 0
  BY ResourceFacts, NumbersAssumption DEF LoopInv, PieceSize, Least

LEMMA PassedFacts ==
  ASSUME LoopInv, SpansInv
  PROVE  Passed \in Nat
  <1>1. at \in Nat /\ at >= 1
    BY DEF LoopInv
  <1>2. CASE at = 1
    BY <1>2 DEF Passed
  <1>3. CASE at > 1
    <2>1. at - 1 \in 1..Len(spans)
      BY <1>1, <1>3 DEF SpansInv
    <2>2. spans \in Seq(Span)
      BY DEF SpansInv
    <2>3. spans[at - 1] \in Span
      BY <2>1, <2>2
    <2>a. spans[at - 1].to \in Nat
      BY <2>3 DEF Span
    <2>4. Passed = spans[at - 1].to
      BY <1>3, <1>1 DEF Passed
    <2> QED
      BY <2>a, <2>4
  <1> QED
    BY <1>1, <1>2, <1>3

\* A read moves the position, and the stream ends where the file does.
LEMMA ReadFacts ==
  ASSUME LoopInv, SpansInv, Streaming, ReadPiece, read' = read + PieceSize,
         UNCHANGED <<group, at, spans>>
  PROVE  /\ input' \in [position : Nat, reading : BOOLEAN, broken : BOOLEAN]
         /\ read' \in Nat
         /\ input'.position <= Resource.length
         /\ ~input'.reading => input'.position = Resource.length
         /\ input'.reading => input'.position < Resource.length
         /\ read' = Passed' + input'.position
         /\ Resource' = Resource
         /\ input'.broken = input.broken
  <1>1. /\ input'.position = input.position + PieceSize
        /\ ~input'.reading => input.position + PieceSize = Resource.length
        /\ input'.reading => input.position + PieceSize # Resource.length
        /\ input'.broken = input.broken
    BY DEF LoopInv, ReadPiece
  <1>2. input' \in [position : Nat, reading : BOOLEAN, broken : BOOLEAN]
    BY PieceFacts DEF LoopInv, ReadPiece
  <1>3. Resource' = Resource /\ Passed' = Passed
    BY DEF Resource, Passed
  <1>4. /\ read = Passed + input.position /\ read \in Nat /\ input.position \in Nat
        /\ at <= Len(group)
    BY DEF LoopInv
  <1>5. /\ PieceSize \in Nat
        /\ input.position + PieceSize <= Resource.length
        /\ Resource.length \in Nat
    BY <1>4, PieceFacts, ResourceFacts, NumbersAssumption
  <1>6. Passed \in Nat
    BY PassedFacts
  <1>7. /\ input'.position <= Resource.length
        /\ ~input'.reading => input'.position = Resource.length
        /\ input'.reading => input'.position < Resource.length
    BY <1>1, <1>4, <1>5
  <1>8. read' \in Nat /\ read' = Passed' + input'.position
    BY <1>1, <1>3, <1>4, <1>5, <1>6
  <1> QED
    BY <1>1, <1>2, <1>3, <1>7, <1>8
--------------------------------------------------------------------------
(* The steps of CreateBundle and LoopInv.                                  *)

LEMMA LoopNext ==
  LoopInv /\ SpansInv /\ StreamInv /\ [CreateNext]_createVars => LoopInv'
  <1> SUFFICES ASSUME LoopInv, SpansInv, StreamInv, [CreateNext]_createVars PROVE LoopInv'
    OBVIOUS
  <1>a. Passed \in Nat /\ Len(group) \in Nat /\ at \in Nat /\ at >= 1
    BY PassedFacts DEF LoopInv
  <1>b. ASSUME NEW c, Finish(c), Streaming \/ stage \in {"resource", "chunk", "group", "document"},
               UNCHANGED <<group, chunkSize, at, input, data, read, spans>>
        PROVE  LoopInv'
    BY <1>b DEF LoopInv, Finish, Streaming, Resource, Passed
  <1>1. CASE SkipResource
    <2>1. /\ stage = "resource" /\ at <= Len(group) /\ at' = at + 1 /\ stage' = "resource"
          /\ spans' = Append(spans, [from |-> read, to |-> read])
          /\ UNCHANGED <<group, chunkSize, input, data, read, stream, disk, outcome>>
      BY <1>1 DEF SkipResource, NextResource, MoreResources
    <2>2. Passed' = read
      BY <2>1, <1>a DEF Passed, SpansInv
    <2> QED
      BY <2>1, <2>2, <1>a DEF LoopInv, Streaming
  <1>2. CASE OpenResource
    <2>1. CASE outcome' = outcome /\ stage' = "stream"
      <3>1. /\ stage = "resource" /\ at <= Len(group) /\ Resource.located
            /\ input' = [position |-> 0, reading |-> TRUE, broken |-> FALSE]
            /\ UNCHANGED <<group, chunkSize, at, data, read, spans>>
        BY <1>2, <2>1 DEF OpenResource, MoreResources, Finish
      <3>2. Passed' = Passed /\ Resource' = Resource /\ Resource.length \in Nat
        BY <3>1, ResourceFacts DEF Passed, Resource
      <3> QED
        BY <2>1, <3>1, <3>2 DEF LoopInv, Streaming
    <2>2. CASE Finish("FAILED_TO_OPEN_FILE") /\ UNCHANGED input
      BY <1>2, <2>2, <1>b DEF OpenResource
    <2> QED
      BY <1>2, <2>1, <2>2 DEF OpenResource
  <1>3. CASE StreamRead
    <2>1. /\ stage = "stream" /\ data = 0 /\ ReadPiece /\ read' = read + PieceSize
          /\ UNCHANGED <<group, chunkSize, at, spans>>
          /\ stage' \in {"stream", "drain"}
          /\ data' \in {0, PieceSize}
          /\ stage' = "drain" => data' = 0
      BY <1>3 DEF StreamRead
    <2>2. PieceSize \in 0..ReadSize /\ 0 \in 0..ReadSize /\ at <= Len(group) /\ Resource.located
      BY <2>1, PieceFacts, NumbersAssumption DEF Streaming, LoopInv
    <2>3. /\ input' \in [position : Nat, reading : BOOLEAN, broken : BOOLEAN]
          /\ read' \in Nat
          /\ input'.position <= Resource.length
          /\ ~input'.reading => input'.position = Resource.length
          /\ input'.reading => input'.position < Resource.length
          /\ read' = Passed' + input'.position
          /\ Resource' = Resource
      BY <2>1, ReadFacts DEF Streaming
    <2> QED
      BY <2>1, <2>2, <2>3 DEF LoopInv, Streaming
  <1>4. CASE ReadFails
    <2>1. /\ stage = "stream" /\ stage' = "drain" /\ data = 0 /\ input.reading
          /\ input' = [input EXCEPT !.broken = TRUE]
          /\ UNCHANGED <<group, chunkSize, at, data, read, spans>>
      BY <1>4 DEF ReadFails
    <2>2. /\ input' \in [position : Nat, reading : BOOLEAN, broken : BOOLEAN]
          /\ input'.position = input.position /\ input'.reading = input.reading
      BY <2>1 DEF LoopInv
    <2>3. Passed' = Passed /\ Resource' = Resource
      BY <2>1 DEF Passed, Resource
    <2> QED
      BY <2>1, <2>2, <2>3 DEF LoopInv, Streaming
  <1>5. CASE StreamWrite
    <2>1. /\ stage = "stream" /\ stage' \in {"stream", "drain"}
          /\ data > 0
          /\ data' \in {0, data - Least(chunkSize, data)}
          /\ stage' = "drain" => data' = 0
          /\ UNCHANGED <<group, chunkSize, at, input, read, spans>>
      BY <1>5 DEF StreamWrite
    <2>2. data' \in 0..ReadSize
      BY <2>1, NumbersAssumption DEF LoopInv, Least
    <2>3. Passed' = Passed /\ Resource' = Resource
      BY <2>1 DEF Passed, Resource
    <2> QED
      BY <2>1, <2>2, <2>3 DEF LoopInv, Streaming
  <1>6. CASE WriteToNothing
    BY <1>6, <1>b DEF WriteToNothing, Streaming
  <1>7. CASE DrainRead
    <2>1. CASE Finish("FAILED_TO_READ_FROM_STREAM") /\ UNCHANGED <<input, read, stream>>
      BY <1>7, <2>1, <1>b DEF DrainRead, Streaming
    <2>2. CASE /\ ReadPiece
               /\ read' = read + PieceSize
               /\ stage' = IF stream.chunksCreated = ChunksExported
                           THEN stage ELSE "endless"
      <3>1. /\ stage = "drain" /\ stream.chunksCreated = 0
            /\ UNCHANGED <<group, chunkSize, at, data, spans>>
        BY <1>7 DEF DrainRead, StreamInv
      <3>2. stage' = "drain"
        BY <2>2, <3>1 DEF ChunksExported
      <3>3. /\ input' \in [position : Nat, reading : BOOLEAN, broken : BOOLEAN]
            /\ read' \in Nat
            /\ input'.position <= Resource.length
            /\ ~input'.reading => input'.position = Resource.length
            /\ input'.reading => input'.position < Resource.length
            /\ read' = Passed' + input'.position
            /\ Resource' = Resource
        BY <2>2, <3>1, ReadFacts DEF Streaming
      <3> QED
        BY <3>1, <3>2, <3>3 DEF LoopInv, Streaming
    <2> QED
      BY <1>7, <2>1, <2>2 DEF DrainRead
  <1>8. CASE EndOfResource
    <2>1. /\ Streaming /\ data = 0 /\ ~input.reading /\ stage' = "resource" /\ at' = at + 1
          /\ spans' = Append(spans, [from |-> read - Resource.length, to |-> read])
          /\ UNCHANGED <<group, chunkSize, input, data, read>>
      BY <1>8 DEF EndOfResource, NextResource, Streaming
    <2>2. Passed' = read
      BY <2>1, <1>a DEF Passed, SpansInv
    <2> QED
      BY <2>1, <2>2, <1>a DEF LoopInv, Streaming
  <1>9. CASE Clear
    <2>1. CASE stage' = "chunk"
      <3>1. /\ stage = "resource" /\ ~(at <= Len(group))
            /\ UNCHANGED <<group, chunkSize, at, input, data, read, spans>>
        BY <1>9 DEF Clear, MoreResources
      <3> QED
        BY <2>1, <3>1, <1>a DEF LoopInv, Streaming, Passed
    <2>2. CASE Finish("crash")
      BY <1>9, <2>2, <1>b DEF Clear
    <2> QED
      BY <1>9, <2>1, <2>2 DEF Clear
  <1>10. CASE ProcessChunk
    BY <1>10, <1>b DEF ProcessChunk, LoopInv, Streaming, Passed
  <1>10a. CASE ChunkMissing
    BY <1>10a, <1>b DEF ChunkMissing
  <1>11. CASE PutGroup
    BY <1>11, <1>b DEF PutGroup, LoopInv, Streaming, Passed
  <1>12. CASE PutDocument
    BY <1>12, <1>b DEF PutDocument
  <1>13. CASE UNCHANGED createVars
    BY <1>13 DEF createVars, LoopInv, Streaming, Passed, Resource
  <1> QED
    BY <1>1, <1>2, <1>3, <1>4, <1>5, <1>6, <1>7, <1>8, <1>9, <1>10, <1>10a,
       <1>11, <1>12, <1>13
    DEF CreateNext
--------------------------------------------------------------------------
(* The steps of CreateBundle and SpansInv.                                 *)

\* One more resource behind those that were passed.
LEMMA SpanAppended ==
  ASSUME LoopInv, SpansInv, at <= Len(group), at' = at + 1, group' = group,
         NEW r \in Nat, r = Passed + Resource.length,
         spans' = Append(spans, [from |-> Passed, to |-> r])
  PROVE  SpansInv'
  <1>1. /\ Passed \in Nat /\ Len(group) \in Nat /\ at \in Nat /\ at >= 1
        /\ Resource.length \in Nat
    BY PassedFacts, ResourceFacts DEF LoopInv
  <1>2. spans \in Seq(Span) /\ Len(spans) = at - 1 /\ Len(spans) \in Nat
    BY DEF SpansInv
  <1>3. [from |-> Passed, to |-> r] \in Span
    BY <1>1 DEF Span
  <1>4. spans' \in Seq(Span) /\ Len(spans') = at
    BY <1>1, <1>2, <1>3
  <1>5. ASSUME NEW f \in 1..Len(spans')
        PROVE  /\ spans'[f].from = IF f = 1 THEN 0 ELSE spans'[f - 1].to
               /\ spans'[f].to = spans'[f].from + group'[f].length
               /\ spans'[f].to <= Passed'
    <2>a. Passed' = r
      BY <1>1, <1>2 DEF Passed
    <2>1. CASE f < at
      <3>1. f \in 1..Len(spans) /\ spans'[f] = spans[f]
        BY <2>1, <1>1, <1>2
      <3>2. f # 1 => spans'[f - 1] = spans[f - 1]
        BY <2>1, <1>1, <1>2
      <3>3. spans[f].to <= Passed /\ spans[f] \in Span
        BY <3>1, <1>2 DEF SpansInv
      <3>4. spans'[f].to <= Passed'
        BY <3>1, <3>3, <2>a, <1>1 DEF Span
      <3> QED
        BY <3>1, <3>2, <3>4 DEF SpansInv
    <2>2. CASE f = at
      <3>1. spans'[f] = [from |-> Passed, to |-> r]
        BY <2>2, <1>1, <1>2
      <3>2. f # 1 => spans'[f - 1] = spans[f - 1]
        BY <2>2, <1>1, <1>2
      <3>3. Passed = IF f = 1 THEN 0 ELSE spans'[f - 1].to
        BY <2>2, <3>2 DEF Passed
      <3>4. Resource = group'[f]
        BY <2>2 DEF Resource
      <3>5. spans'[f].from = Passed /\ spans'[f].to = r
        BY <3>1
      <3>6. spans'[f].to <= Passed'
        BY <3>5, <2>a
      <3> QED
        BY <3>3, <3>4, <3>5, <3>6
    <2> QED
      BY <1>4, <1>1, <2>1, <2>2
  <1> QED
    BY <1>1, <1>4, <1>5 DEF SpansInv

LEMMA SpansNext == LoopInv /\ SpansInv /\ [CreateNext]_createVars => SpansInv'
  <1> SUFFICES ASSUME LoopInv, SpansInv, [CreateNext]_createVars PROVE SpansInv'
    OBVIOUS
  <1>a. Passed \in Nat /\ read \in Nat
    BY PassedFacts DEF LoopInv
  <1>1. CASE SkipResource
    <2>1. /\ stage = "resource" /\ at <= Len(group) /\ at' = at + 1 /\ group' = group
          /\ ~Resource.located
          /\ spans' = Append(spans, [from |-> read, to |-> read])
      BY <1>1 DEF SkipResource, NextResource, MoreResources
    <2>2. read = Passed /\ Resource.length = 0
      BY <2>1, ResourceFacts DEF LoopInv
    <2> QED
      BY <2>1, <2>2, <1>a, SpanAppended
  <1>2. CASE EndOfResource
    <2>1. /\ Streaming /\ ~input.reading /\ at' = at + 1 /\ group' = group
          /\ spans' = Append(spans, [from |-> read - Resource.length, to |-> read])
      BY <1>2 DEF EndOfResource, NextResource, Streaming
    <2>2. /\ read = Passed + Resource.length /\ at <= Len(group)
      BY <2>1 DEF LoopInv
    <2>3. read - Resource.length = Passed
      BY <2>2, <1>a, ResourceFacts
    <2> QED
      BY <2>1, <2>2, <2>3, <1>a, SpanAppended
  <1>3. CASE UNCHANGED <<group, at, spans>>
    BY <1>3 DEF SpansInv, Passed
  <1> QED
    BY <1>1, <1>2, <1>3
    DEF CreateNext, createVars, OpenResource, StreamRead, ReadFails, StreamWrite, WriteToNothing,
        DrainRead, Clear, ChunkMissing, ProcessChunk, PutGroup, PutDocument
--------------------------------------------------------------------------
(* The steps of CreateBundle and StreamInv.                                *)

\* A stream that was started has the raw file with number 0.
LEMMA InitializedFacts ==
  ASSUME StreamInv, stream.chunksCreated = 0,
         NEW s \in Initialized([stream EXCEPT !.started = TRUE])
  PROVE  /\ s \in Stream
         /\ s.started
         /\ s.chunksCreated = 0
         /\ \/ s.opened \in {"yes", "noCompressed"} /\ s.raws = <<0>>
            \/ s.opened = "noRaw"
         /\ s.lost = stream.lost /\ s.dropped = stream.dropped
  <1> DEFINE t == [stream EXCEPT !.started = TRUE]
  <1>1. /\ t \in Stream /\ t.started /\ t.chunksCreated = 0 /\ t.lost = stream.lost
        /\ t.raws = stream.raws /\ t.dropped = stream.dropped
    BY DEF StreamInv, Stream
  <1>a. s \in Initialized(t)
    OBVIOUS
  <1> HIDE DEF t
  <1>2. SubSeq(t.raws, 1, 0) = <<>>
    BY <1>1 DEF Stream
  <1>3. ASSUME NEW opened \in {"yes", "noCompressed"},
               s = [t EXCEPT !.opened = opened, !.raws = Append(SubSeq(t.raws, 1, 0), 0)]
        PROVE  /\ s \in Stream /\ s.started /\ s.chunksCreated = 0
               /\ s.opened = opened /\ s.raws = <<0>>
               /\ s.lost = stream.lost /\ s.dropped = stream.dropped
    <2>a. Append(<<>>, 0) = <<0>>
      OBVIOUS
    <2>1. Append(SubSeq(t.raws, 1, 0), 0) = <<0>>
      BY <1>2, <2>a, Zenon
    <2>2. <<0>> \in Seq(Nat)
      OBVIOUS
    <2>3. s = [t EXCEPT !.opened = opened, !.raws = <<0>>]
      BY <1>3, <2>1
    <2> QED
      BY <1>1, <2>2, <2>3 DEF Stream
  <1>4. CASE s = [t EXCEPT !.opened = "noRaw"]
    BY <1>1, <1>4 DEF Stream
  <1> QED
    BY <1>1, <1>3, <1>4, <1>a DEF Initialized

\* A write adds to the only raw file, or loses something.
LEMMA WrittenFacts ==
  ASSUME StreamInv, StreamsExist, NEW n \in Nat, NEW s \in Written(stream, n)
  PROVE  /\ s \in Stream
         /\ s.opened = stream.opened
         /\ s.dropped = stream.dropped
         /\ Len(s.raws) = 1
         /\ s.started = stream.started
         /\ s.chunksCreated = stream.chunksCreated
         /\ stream.lost => s.lost
         /\ ~s.lost => s.raws[1] = stream.raws[1] + n
  <1>1. stream \in Stream /\ Len(stream.raws) = 1
    BY DEF StreamInv
  <1>2. /\ stream.raws \in Seq(Nat) /\ stream.raws[1] \in Nat
        /\ stream.lost \in BOOLEAN
    BY <1>1 DEF Stream
  <1>3. ASSUME NEW k \in Nat
        PROVE  /\ [stream.raws EXCEPT ![1] = stream.raws[1] + k] \in Seq(Nat)
               /\ Len([stream.raws EXCEPT ![1] = stream.raws[1] + k]) = 1
               /\ [stream.raws EXCEPT ![1] = stream.raws[1] + k][1] = stream.raws[1] + k
    BY <1>1, <1>2
  <1>4. CASE stream.lost
    <2>1. s = stream
      BY <1>4 DEF Written
    <2> QED
      BY <1>1, <1>4, <2>1
  <1>5. ASSUME NEW k \in Nat, NEW l \in BOOLEAN, l \/ k = n,
               s = [stream EXCEPT !.raws = [stream.raws EXCEPT ![1] = stream.raws[1] + k],
                                  !.lost = l]
        PROVE  /\ s \in Stream
               /\ s.opened = stream.opened
               /\ s.dropped = stream.dropped
               /\ Len(s.raws) = 1
               /\ s.started = stream.started
               /\ s.chunksCreated = stream.chunksCreated
               /\ ~s.lost => s.raws[1] = stream.raws[1] + n
    <2> DEFINE raws == [stream.raws EXCEPT ![1] = stream.raws[1] + k]
    <2>1. /\ raws \in Seq(Nat) /\ Len(raws) = 1 /\ raws[1] = stream.raws[1] + k
      BY <1>3
    <2>2. s = [stream EXCEPT !.raws = raws, !.lost = l]
      BY <1>5
    <2> HIDE DEF raws
    <2>3. /\ s.raws = raws /\ s.lost = l /\ s.opened = stream.opened /\ s.started = stream.started
          /\ s.dropped = stream.dropped /\ s.chunksCreated = stream.chunksCreated /\ s \in Stream
      BY <1>1, <2>1, <2>2 DEF Stream
    <2> QED
      BY <1>5, <2>1, <2>3
  <1>6. CASE ~stream.lost
    <2>1. CASE s = [stream EXCEPT !.raws[Len(stream.raws)] = @ + n]
      <3>1. s = [stream EXCEPT !.raws = [stream.raws EXCEPT ![1] = stream.raws[1] + n],
                               !.lost = FALSE]
        BY <1>1, <1>6, <2>1 DEF Stream
      <3> QED
        BY <1>5, <1>6, <3>1
    <2>2. ASSUME NEW k \in 0..(n - 1), s = [stream EXCEPT !.raws[Len(stream.raws)] = @ + k, !.lost = TRUE]
          PROVE  /\ s \in Stream
                 /\ s.opened = stream.opened
                 /\ s.dropped = stream.dropped
                 /\ Len(s.raws) = 1
                 /\ s.started = stream.started
                 /\ s.chunksCreated = stream.chunksCreated
                 /\ ~s.lost => s.raws[1] = stream.raws[1] + n
      <3>1. s = [stream EXCEPT !.raws = [stream.raws EXCEPT ![1] = stream.raws[1] + k],
                               !.lost = TRUE]
        BY <1>1, <2>2
      <3>2. k \in Nat /\ TRUE \in BOOLEAN
        OBVIOUS
      <3> QED
        BY <1>5, <3>1, <3>2
    <2>3. s \in {[stream EXCEPT !.raws[Len(stream.raws)] = @ + n]}
                  \cup (IF DiskMayFail
                        THEN {[stream EXCEPT !.raws[Len(stream.raws)] = @ + k, !.lost = TRUE] : k \in 0..(n - 1)}
                        ELSE {})
      BY <1>6 DEF Written
    <2>4. CASE ~DiskMayFail
      BY <2>1, <2>3, <2>4
    <2>5. CASE \E k \in 0..(n - 1) :
                 s = [stream EXCEPT !.raws[Len(stream.raws)] = @ + k, !.lost = TRUE]
      <3>1. PICK k \in 0..(n - 1) :
              s = [stream EXCEPT !.raws[Len(stream.raws)] = @ + k, !.lost = TRUE]
        BY <2>5
      <3>2. /\ s \in Stream
            /\ s.opened = stream.opened
            /\ s.dropped = stream.dropped
            /\ Len(s.raws) = 1
            /\ s.started = stream.started
            /\ s.chunksCreated = stream.chunksCreated
            /\ ~s.lost => s.raws[1] = stream.raws[1] + n
        BY <2>2, <3>1
      <3> QED
        BY <1>6, <3>2
    <2> QED
      BY <2>1, <2>3, <2>4, <2>5
  <1> QED
    BY <1>2, <1>4, <1>6

LEMMA StreamNext ==
  LoopInv /\ SpansInv /\ StreamInv /\ [CreateNext]_createVars => StreamInv'
  <1> SUFFICES ASSUME LoopInv, SpansInv, StreamInv, [CreateNext]_createVars PROVE StreamInv'
    OBVIOUS
  <1>a. /\ Len(group) \in Nat /\ at \in Nat /\ at >= 1 /\ read \in Nat /\ data \in Nat
        /\ chunkSize \in Nat /\ chunkSize > 0
    BY NumbersAssumption DEF LoopInv
  <1>b. ASSUME NEW c, Finish(c), UNCHANGED <<group, at, data, read, stream>>
        PROVE  StreamInv'
    BY <1>b DEF StreamInv, StreamsExist, Finish, Streaming
  <1>1. CASE SkipResource
    <2>1. /\ stage = "resource" /\ stage' = "resource" /\ ~group[at].located /\ at' = at + 1
          /\ UNCHANGED <<group, data, read, stream>>
      BY <1>1 DEF SkipResource, NextResource, Resource
    <2>2. (\A f \in 1..(at - 1) : ~group[f].located) => \A f \in 1..(at' - 1) : ~group'[f].located
      BY <2>1, <1>a
    <2> QED
      BY <2>1, <2>2 DEF StreamInv, StreamsExist, Streaming
  <1>2. CASE OpenResource
    <2>1. CASE Finish("FAILED_TO_OPEN_FILE")
      BY <1>2, <2>1, <1>b DEF OpenResource
    <2>2. CASE /\ stage' = "stream"
               /\ input' = [position |-> 0, reading |-> TRUE, broken |-> FALSE]
      <3>1. stage = "resource" /\ UNCHANGED <<group, at, data, read, stream>>
        BY <1>2 DEF OpenResource
      <3> QED
        BY <2>2, <3>1 DEF StreamInv, StreamsExist, Streaming
    <2> QED
      BY <1>2, <2>1, <2>2 DEF OpenResource
  <1>3. CASE StreamRead
    <2>1. /\ stage = "stream" /\ data = 0 /\ input.reading /\ read' = read + PieceSize
          /\ UNCHANGED <<group, at>>
          /\ PieceSize \in Nat
      BY <1>3, PieceFacts, NumbersAssumption DEF StreamRead, Streaming
    <2>2. /\ stream.chunksCreated = 0 /\ stream \in Stream /\ stream.dropped \in Nat
          /\ stream.opened \in {"no", "yes", "noRaw", "noCompressed"}
      BY <2>1 DEF StreamInv, Stream
    <2>3. CASE stream.started
      <3>1. data' = PieceSize /\ UNCHANGED <<stage, stream>>
        BY <1>3, <2>3 DEF StreamRead, StreamNeeded
      <3>2. stream.opened # "no"
        BY <2>3 DEF StreamInv
      <3>3. StreamsExist /\ ~stream.lost => stream.raws[1] + data' = read' - stream.dropped
        <4>1. StreamsExist => stream.raws[1] \in Nat
          BY DEF StreamInv, Stream
        <4> QED
          BY <1>a, <2>1, <2>2, <3>1, <4>1 DEF StreamInv
      <3> QED
        BY <2>1, <3>1, <3>2, <3>3 DEF StreamInv, StreamsExist, Streaming
    <2>4. CASE ~stream.started
      <3>1. PICK s \in Initialized([stream EXCEPT !.started = TRUE]) :
              IF s.opened = "yes"
              THEN stream' = s /\ data' = PieceSize /\ UNCHANGED stage
              ELSE /\ stream' = [s EXCEPT !.dropped = PieceSize]
                   /\ data' = 0
                   /\ stage' = "drain"
        BY <1>3, <2>4 DEF StreamRead, StreamNeeded
      <3>2. /\ s \in Stream /\ s.started /\ s.chunksCreated = 0
            /\ \/ s.opened \in {"yes", "noCompressed"} /\ s.raws = <<0>>
               \/ s.opened = "noRaw"
            /\ s.lost = stream.lost /\ s.dropped = stream.dropped
        BY <2>2, InitializedFacts
      <3>3. stream.opened = "no"
        BY <2>1, <2>2, <2>4 DEF StreamInv, StreamsExist
      <3>4. read = 0 /\ stream.dropped = 0
        BY <3>3 DEF StreamInv
      <3>5. CASE s.opened = "yes"
        <4>1. stream' = s /\ data' = PieceSize /\ stage' = "stream"
          BY <2>1, <3>1, <3>5
        <4>2. Len(s.raws) = 1 /\ s.raws[1] + PieceSize = read' - s.dropped
          BY <2>1, <3>2, <3>4, <3>5
        <4> QED
          BY <2>1, <3>2, <3>4, <3>5, <4>1, <4>2 DEF StreamInv, StreamsExist, Streaming
      <3>6. CASE s.opened # "yes"
        <4>1. stream' = [s EXCEPT !.dropped = PieceSize] /\ data' = 0 /\ stage' = "drain"
          BY <3>1, <3>6
        <4>2. /\ stream' \in Stream /\ stream'.dropped = PieceSize
              /\ stream'.started /\ stream'.chunksCreated = 0
              /\ stream'.raws = s.raws /\ stream'.opened = s.opened
          BY <2>1, <3>2, <4>1 DEF Stream
        <4>3. s.opened \in {"noRaw", "noCompressed"}
          BY <3>2, <3>6
        <4>4. s.opened = "noCompressed" =>
                /\ Len(stream'.raws) = 1
                /\ stream'.raws[1] + data' = read' - stream'.dropped
          <5>1. ASSUME s.opened = "noCompressed" PROVE s.raws = <<0>>
            BY <3>2, <5>1
          <5>2. Len(<<0>>) = 1 /\ <<0>>[1] = 0
            OBVIOUS
          <5>3. read' = PieceSize
            BY <2>1, <3>4
          <5> SUFFICES ASSUME s.opened = "noCompressed"
                       PROVE  /\ Len(stream'.raws) = 1
                              /\ stream'.raws[1] + data' = read' - stream'.dropped
            OBVIOUS
          <5>4. stream'.raws = <<0>>
            BY <4>2, <5>1, Zenon
          <5>5. Len(stream'.raws) = 1 /\ stream'.raws[1] = 0
            BY <5>2, <5>4, Zenon
          <5>6. stream'.dropped = PieceSize /\ data' = 0 /\ PieceSize \in Nat
            BY <2>1, <4>1, <4>2
          <5> QED
            BY <5>3, <5>5, <5>6
        <4> QED
          BY <4>1, <4>2, <4>3, <4>4 DEF StreamInv, StreamsExist, Streaming
      <3> QED
        BY <3>5, <3>6
    <2> QED
      BY <2>3, <2>4
  <1>4. CASE ReadFails
    <2>1. /\ stage = "stream" /\ stage' = "drain" /\ input.reading
          /\ input' = [input EXCEPT !.broken = TRUE]
          /\ UNCHANGED <<group, at, data, read, stream>>
      BY <1>4 DEF ReadFails
    <2>2. input'.broken /\ input'.reading
      BY <2>1 DEF LoopInv
    <2> QED
      BY <2>1, <2>2 DEF StreamInv, StreamsExist, Streaming
  <1>5. CASE StreamWrite
    <2> DEFINE n == Least(chunkSize, data)
    <2>1. /\ stage = "stream" /\ data > 0 /\ StreamsExist /\ stream.started
          /\ UNCHANGED <<group, at, input, read>>
      BY <1>5 DEF StreamWrite, StreamInv
    <2>2. n \in Nat /\ n <= data
      BY <1>a DEF Least
    <2>3. PICK s \in Written(stream, n) :
            /\ stream' = s
            /\ data' = data - n /\ UNCHANGED stage
      BY <1>5, <1>a DEF StreamWrite, CompressedHeld
    <2>4. /\ s \in Stream
          /\ s.opened = stream.opened
          /\ s.dropped = stream.dropped
          /\ Len(s.raws) = 1
          /\ s.started = stream.started
          /\ s.chunksCreated = stream.chunksCreated
          /\ stream.lost => s.lost
          /\ ~s.lost => s.raws[1] = stream.raws[1] + n
      BY <2>1, <2>2, WrittenFacts
    <2>5. stream' = s /\ data' = data - n /\ stage' = "stream"
      BY <2>1, <2>3, <2>4
    <2>6. ~s.lost => s.raws[1] + data' = read - s.dropped
      <3>1. ~s.lost => stream.raws[1] + data = read - stream.dropped
        BY <2>1, <2>4 DEF StreamInv
      <3>2. stream.raws[1] \in Nat /\ stream.dropped \in Nat
        BY <2>1 DEF StreamInv, Stream
      <3> QED
        BY <1>a, <2>2, <2>4, <2>5, <3>1, <3>2
    <2> HIDE DEF n
    <2> QED
      BY <2>1, <2>4, <2>5, <2>6 DEF StreamInv, StreamsExist, Streaming
  <1>6. CASE WriteToNothing
    BY <1>6, <1>b DEF WriteToNothing
  <1>7. CASE DrainRead
    <2>1. CASE Finish("FAILED_TO_READ_FROM_STREAM") /\ UNCHANGED <<input, read, stream>>
      BY <1>7, <2>1, <1>b DEF DrainRead
    <2>2. CASE /\ ~input.broken
               /\ ReadPiece
               /\ read' = read + PieceSize
               /\ stream' = [stream EXCEPT !.dropped = @ + PieceSize]
               /\ stage' = IF stream.chunksCreated = ChunksExported
                           THEN stage ELSE "endless"
      <3>1. /\ stage = "drain" /\ stream.opened \in {"noRaw", "noCompressed"}
            /\ stream.started /\ stream \in Stream /\ stream.chunksCreated = 0
            /\ UNCHANGED <<group, at, data>>
        BY <1>7, <2>2 DEF DrainRead, StreamInv, Stream, StreamsExist
      <3>2. stage' = "drain"
        BY <2>2, <3>1 DEF ChunksExported
      <3>3. PieceSize \in Nat /\ stream.dropped \in Nat
        BY <3>1, PieceFacts, NumbersAssumption DEF Streaming, Stream
      <3>4. /\ stream' \in Stream /\ stream'.dropped = stream.dropped + PieceSize
            /\ stream'.started /\ stream'.chunksCreated = 0
            /\ stream'.raws = stream.raws /\ stream'.opened = stream.opened
        BY <2>2, <3>1, <3>3 DEF Stream
      <3>5. stream'.lost = stream.lost
        BY <2>2, <3>1, Zenon DEF Stream
      <3>6. StreamsExist /\ ~stream.lost =>
              stream.raws[1] + data' = read' - stream'.dropped
        <4>1. StreamsExist => stream.raws[1] \in Nat
          BY DEF StreamInv, Stream
        <4> QED
          BY <1>a, <2>2, <3>1, <3>3, <3>4, <4>1 DEF StreamInv
      <3> QED
        BY <3>1, <3>2, <3>4, <3>5, <3>6 DEF StreamInv, StreamsExist, Streaming
    <2> QED
      BY <1>7, <2>1, <2>2 DEF DrainRead
  <1>8. CASE EndOfResource
    <2>1. /\ Streaming /\ ~input.reading /\ stage' = "resource" /\ data = 0
          /\ UNCHANGED <<group, data, read, stream>>
      BY <1>8 DEF EndOfResource, NextResource, Streaming
    <2>2. stream.opened # "no" /\ stage # "done"
      BY <2>1 DEF StreamInv, Streaming
    <2> QED
      BY <2>1, <2>2 DEF StreamInv, StreamsExist, Streaming
  <1>9. CASE Clear
    <2>1. CASE Finish("crash") /\ UNCHANGED stream
      BY <1>9, <2>1, <1>b DEF Clear
    <2>2. CASE StreamsExist /\ stage' = "chunk" /\ stream' \in Reopened(Flushed(stream))
      <3>1. stage = "resource" /\ UNCHANGED <<group, at, data, read>>
        BY <1>9 DEF Clear
      <3>2. stream.started /\ stream.chunksCreated = 0 /\ stream \in Stream
        BY <2>2, <3>1 DEF StreamInv
      <3> DEFINE flushed == [stream EXCEPT !.chunksCreated = 1, !.started = FALSE]
      <3>3. Flushed(stream) = flushed
        <4>1. Flushed(stream) = [stream EXCEPT !.chunksCreated = @ + 1, !.started = FALSE]
          BY <3>2 DEF Flushed
        <4>2. stream.chunksCreated + 1 = 1
          BY <3>2
        <4> QED
          BY <4>1, <4>2
      <3>4. /\ flushed \in Stream
            /\ flushed.chunksCreated = 1 /\ flushed.raws = stream.raws
            /\ flushed.opened = stream.opened /\ flushed.dropped = stream.dropped
        BY <3>2 DEF Stream
      <3>5. flushed.lost = stream.lost
        BY <3>2, Zenon DEF Stream
      <3> HIDE DEF flushed
      <3>6. PICK reopened \in {"yes", "failed"} :
              stream' = [flushed EXCEPT !.reopened = reopened]
        BY <2>2, <3>3 DEF Reopened
      <3>7. /\ stream' \in Stream
            /\ stream'.chunksCreated = 1 /\ stream'.raws = stream.raws
            /\ stream'.opened = stream.opened /\ stream'.dropped = stream.dropped
        BY <3>4, <3>6 DEF Stream
      <3>8. stream'.lost = stream.lost
        BY <3>4, <3>5, <3>6, Zenon DEF Stream
      <3> QED
        BY <2>2, <3>1, <3>7, <3>8 DEF StreamInv, StreamsExist, Streaming
    <2> QED
      BY <1>9, <2>1, <2>2 DEF Clear
  <1>10. CASE ProcessChunk
    BY <1>10, <1>b DEF ProcessChunk, StreamInv, StreamsExist, Streaming
  <1>10a. CASE ChunkMissing
    BY <1>10a, <1>b DEF ChunkMissing
  <1>11. CASE PutGroup
    BY <1>11, <1>b DEF PutGroup, StreamInv, StreamsExist, Streaming
  <1>12. CASE PutDocument
    BY <1>12, <1>b DEF PutDocument
  <1>13. CASE UNCHANGED createVars
    BY <1>13 DEF createVars, StreamInv, StreamsExist, Streaming
  <1> QED
    BY <1>1, <1>2, <1>3, <1>4, <1>5, <1>6, <1>7, <1>8, <1>9, <1>10, <1>10a,
       <1>11, <1>12, <1>13
    DEF CreateNext
--------------------------------------------------------------------------
(* The steps of CreateBundle and DiskInv.                                  *)

\* A call that has ended takes no step.
LEMMA DoneIsDone == stage = "done" => ~CreateNext
  BY DEF CreateNext, SkipResource, OpenResource, StreamRead, ReadFails, StreamWrite,
         WriteToNothing, DrainRead, EndOfResource, Clear, ChunkMissing, ProcessChunk, PutGroup,
         PutDocument

LEMMA DiskNext ==
  LoopInv /\ StreamInv /\ DiskInv /\ [CreateNext]_createVars => DiskInv'
  <1> SUFFICES ASSUME LoopInv, StreamInv, DiskInv, [CreateNext]_createVars PROVE DiskInv'
    OBVIOUS
  <1>1. CASE UNCHANGED createVars
    BY <1>1 DEF createVars, DiskInv, Passed
  <1>a. CASE CreateNext
    <2>a. stage # "done"
      BY <1>a, DoneIsDone
    <2>b. outcome \notin {"SUCCESS", "crash"} /\ ~disk.document
      BY <2>a DEF DiskInv
    <2>c. ASSUME NEW c, Finish(c), c \notin {"SUCCESS", "crash"}, UNCHANGED disk
          PROVE  DiskInv'
      BY <2>b, <2>c DEF DiskInv, Finish
    <2>1. CASE ProcessChunk
      <3>1. CASE /\ \E code \in {"FAILED_TO_SAVE_FILE", "exception"} : Finish(code)
                 /\ UNCHANGED disk
        BY <3>1, <2>c
      <3>2. CASE CopyChunk /\ stage' = "group" /\ UNCHANGED outcome
        <4>1. stage = "chunk" /\ UNCHANGED <<read, stream>>
          BY <2>1 DEF ProcessChunk
        <4>2. /\ stream.raws \in Seq(Nat) /\ Len(stream.raws) = 1
              /\ data = 0
              /\ ~stream.lost => stream.raws[1] + data = read - stream.dropped
              /\ stream.opened = "yes" => stream.dropped = 0
          BY <4>1 DEF StreamInv, Stream, LoopInv
        <4>3. stream.raws[1] \in Nat
          BY <4>2
        <4>4. ~stream.lost => stream.raws[1] = read - stream.dropped
          BY <4>2, <4>3
        <4>a. ChunksExported + 1 = 1
          BY DEF ChunksExported
        <4>b. PICK n \in Summed(stream.raws[1]) :
                disk' = [disk EXCEPT !.chunk = stream.raws[1], !.summed = n]
          BY <3>2, <4>a DEF CopyChunk
        <4>5. n \in Nat /\ disk' = [disk EXCEPT !.chunk = stream.raws[1], !.summed = n]
          BY <4>3, <4>b DEF Summed
        <4>6. /\ disk'.chunk = stream.raws[1]
              /\ disk' \in [chunk : Nat \cup {NoChunk}, summed : Nat, group : BOOLEAN,
                            document : BOOLEAN]
          BY <4>3, <4>5 DEF DiskInv
        <4>7. ~disk'.document
          BY <4>5, <2>b DEF DiskInv
        <4> QED
          BY <2>b, <3>2, <4>1, <4>2, <4>3, <4>4, <4>6, <4>7 DEF DiskInv
      <3> QED
        BY <2>1, <3>1, <3>2 DEF ProcessChunk
    <2>1a. CASE ChunkMissing
      BY <2>1a, <2>b DEF ChunkMissing, Finish, DiskInv
    <2>2. CASE PutGroup
      <3>1. CASE Finish("FAILED_TO_SAVE_FILE") /\ UNCHANGED disk
        BY <3>1, <2>c
      <3>2. CASE /\ disk' = [disk EXCEPT !.group = TRUE]
                 /\ stage' = "document"
                 /\ UNCHANGED outcome
        <4>1. stage = "group" /\ UNCHANGED <<read, stream>>
          BY <2>2 DEF PutGroup
        <4>2. /\ disk'.chunk = disk.chunk /\ disk'.group
              /\ disk' \in [chunk : Nat \cup {NoChunk}, summed : Nat, group : BOOLEAN, document : BOOLEAN]
          BY <3>2 DEF DiskInv
        <4>3. ~disk'.document
          BY <3>2, <2>b DEF DiskInv
        <4> QED
          BY <2>b, <3>2, <4>1, <4>2, <4>3 DEF DiskInv
      <3> QED
        BY <2>2, <3>1, <3>2 DEF PutGroup
    <2>3. CASE PutDocument
      <3>1. CASE Finish("FAILED_TO_SAVE_FILE") /\ UNCHANGED disk
        BY <3>1, <2>c
      <3>2. CASE /\ disk' = [disk EXCEPT !.document = TRUE]
                 /\ Finish("SUCCESS")
        <4>1. stage = "document" /\ UNCHANGED <<group, at, read, spans, stream>>
          BY <2>3 DEF PutDocument
        <4>2. /\ disk'.chunk = disk.chunk /\ disk'.document
              /\ disk' \in [chunk : Nat \cup {NoChunk}, summed : Nat, group : BOOLEAN, document : BOOLEAN]
          BY <3>2 DEF DiskInv
        <4>3. disk'.group
          BY <3>2, <4>1 DEF DiskInv
        <4>4. at = Len(group) + 1 /\ read = Passed
          BY <4>1 DEF LoopInv
        <4> QED
          BY <3>2, <4>1, <4>2, <4>3, <4>4 DEF DiskInv, Finish, Passed
      <3> QED
        BY <2>3, <3>1, <3>2 DEF PutDocument
    <2>4. CASE WriteToNothing
      <3>1. stream.opened = "noRaw"
        BY <2>4 DEF WriteToNothing, StreamsExist, StreamInv, Stream
      <3> QED
        BY <2>4, <2>b, <3>1 DEF WriteToNothing, Finish, DiskInv
    <2>5. CASE Clear
      <3>1. CASE StreamsExist
        BY <2>5, <3>1, <2>b DEF Clear, DiskInv
      <3>2. CASE ~StreamsExist
        <4>1. /\ Finish("crash") /\ UNCHANGED <<group, stream, disk>>
              /\ ~(at <= Len(group))
          BY <2>5, <3>2 DEF Clear, MoreResources
        <4>2. \/ stream.opened = "noRaw"
              \/ \A f \in 1..Len(group) : ~group[f].located
          <5>1. Len(group) \in Nat /\ at - 1 = Len(group)
            BY <4>1 DEF LoopInv
          <5> QED
            BY <3>2, <5>1 DEF StreamInv, StreamsExist, Stream
        <4> QED
          BY <2>b, <4>1, <4>2 DEF Finish, DiskInv
      <3> QED
        BY <3>1, <3>2
    <2>6. CASE \/ Finish("FAILED_TO_OPEN_FILE")
               \/ Finish("FAILED_TO_READ_FROM_STREAM")
               \/ /\ stage' \in {"resource", "stream", "drain", "endless"}
                  /\ UNCHANGED outcome
      <3>1. CASE UNCHANGED disk
        BY <2>6, <2>b, <2>c, <3>1 DEF DiskInv
      <3>2. CASE disk' # disk
        BY <1>a, <2>1, <2>2, <2>3, <3>2
        DEF CreateNext, SkipResource, OpenResource, StreamRead, ReadFails, StreamWrite,
            WriteToNothing, DrainRead, EndOfResource, Clear, ChunkMissing
      <3> QED
        BY <3>1, <3>2
    <2>7. CASE SkipResource \/ OpenResource \/ StreamRead \/ ReadFails \/ EndOfResource
      BY <2>7, <2>6
      DEF SkipResource, OpenResource, StreamRead, ReadFails, EndOfResource, NextResource
    <2>8. CASE StreamWrite
      <3>1. stage = "stream" /\ stage' \in {stage, "drain"} /\ UNCHANGED outcome
        BY <2>8 DEF StreamWrite
      <3> QED
        BY <2>6, <3>1
    <2>9. CASE DrainRead
      BY <2>6, <2>9 DEF DrainRead
    <2> QED
      BY <1>a, <2>1, <2>1a, <2>2, <2>3, <2>4, <2>5, <2>7, <2>8, <2>9 DEF CreateNext
  <1> QED
    BY <1>1, <1>a

LEMMA CreateInvNext == CreateInv /\ [CreateNext]_createVars => CreateInv'
  BY LoopNext, SpansNext, StreamNext, DiskNext DEF CreateInv
--------------------------------------------------------------------------
(* The bundle CreateBundle leaves.                                         *)

\* The document is there, so that the call has ended with SUCCESS.
LEMMA DocumentFacts ==
  ASSUME CreateInv, disk.document
  PROVE  /\ stage = "done"
         /\ group \in Seq(Entries) /\ Len(group) \in Nat
         /\ disk.chunk \in Nat
         /\ chunkSize \in Nat \ {0}
         /\ ~stream.lost => disk.chunk = read - stream.dropped
         /\ stream.opened = "yes" => stream.dropped = 0
         /\ stream.dropped \in Nat
         /\ Len(spans) = Len(group)
         /\ read = Passed
  BY NumbersAssumption DEF CreateInv, LoopInv, SpansInv, StreamInv, Stream, DiskInv

\* Where bytes are in the chunk is a matter of where they are in the files.
LEMMA InChunkFacts ==
  ASSUME stream.dropped \in Nat
  PROVE  /\ InChunk(0) = 0
         /\ \A p \in Nat : InChunk(p) \in Nat
         /\ \A p, q \in Nat : p <= q => InChunk(p) <= InChunk(q)
         /\ stream.dropped = 0 => \A p \in Nat : InChunk(p) = p
  BY DEF InChunk

\* One file of it.
LEMMA CreatedFile ==
  ASSUME CreateInv, disk.document, NEW f \in 1..Len(group)
  PROVE  /\ Created.files[f] \in BundleFile
         /\ Created.files[f].located = group[f].located
         /\ Created.files[f].from = Boundary(Created, f)
         /\ Created.files[f].from <= Created.files[f].to
         /\ ~Created.files[f].located => Created.files[f].to = Created.files[f].from
         /\ Created.files[f].faithful =>
              Created.files[f].size = Created.files[f].to - Created.files[f].from
         /\ stream.dropped = 0 =>
              /\ Created.files[f].faithful = group[f].faithful
              /\ Created.files[f].to <= read
  <1>1. /\ group \in Seq(Entries) /\ Len(group) \in Nat /\ DOMAIN group = 1..Len(group)
        /\ Len(spans) = Len(group) /\ spans \in Seq(Span) /\ read = Passed
        /\ stream.dropped \in Nat
    BY DocumentFacts DEF CreateInv, SpansInv
  <1> DEFINE first == InChunk(spans[f].from)
             last  == InChunk(spans[f].to)
             kept  == group[f].faithful /\ last - first = group[f].length
  <1>2. Created.files[f] = [located |-> group[f].located, size |-> group[f].size,
                            from |-> first, to |-> last, faithful |-> kept]
    BY <1>1 DEF Created
  <1>a. group[f] \in Entries
    BY <1>1
  <1>3. /\ group[f].located \in BOOLEAN /\ group[f].size \in Nat
        /\ group[f].length \in Nat /\ group[f].faithful \in BOOLEAN
        /\ group[f].faithful => group[f].size = group[f].length
        /\ ~group[f].located => group[f].length = 0
    BY <1>a, EntriesAssumption
  <1>b. spans[f] \in Span
    BY <1>1
  <1>4. spans[f].from \in Nat /\ spans[f].to \in Nat
    BY <1>b DEF Span
  <1>5. /\ spans[f].from = IF f = 1 THEN 0 ELSE spans[f - 1].to
        /\ spans[f].to = spans[f].from + group[f].length
        /\ spans[f].to <= read
    BY <1>1 DEF CreateInv, SpansInv
  <1>c. first \in Nat /\ last \in Nat /\ first <= last
    <2>1. spans[f].from <= spans[f].to
      BY <1>3, <1>4, <1>5
    <2> QED
      BY <1>1, <1>4, <2>1, InChunkFacts
  <1>d. stream.dropped = 0 => first = spans[f].from /\ last = spans[f].to
    BY <1>1, <1>4, InChunkFacts
  <1>e. spans[f].to = spans[f].from => last = first
    BY <1>4
  <1>7. Boundary(Created, f) = first
    <2>1. CASE f = 1
      BY <1>1, <1>5, <2>1, InChunkFacts DEF Boundary
    <2>2. CASE f # 1
      <3>1. f - 1 \in 1..Len(group)
        BY <1>1, <2>2
      <3>2. Created.files[f - 1].to = InChunk(spans[f - 1].to)
        BY <1>1, <3>1 DEF Created
      <3> QED
        BY <1>5, <2>2, <3>2 DEF Boundary
    <2> QED
      BY <2>1, <2>2
  <1>f. kept \in BOOLEAN
    OBVIOUS
  <1>g. kept => group[f].size = last - first
    BY <1>3
  <1>h. stream.dropped = 0 => last - first = group[f].length
    BY <1>3, <1>4, <1>5, <1>d
  <1>i. stream.dropped = 0 => kept = group[f].faithful
    BY <1>3, <1>h
  <1> HIDE DEF first, last, kept
  <1>6. Created.files[f] \in BundleFile
    BY <1>2, <1>3, <1>c, <1>f DEF BundleFile
  <1>8. /\ Created.files[f].located = group[f].located
        /\ Created.files[f].size = group[f].size
        /\ Created.files[f].from = first
        /\ Created.files[f].to = last
    BY <1>2
  <1>9. Created.files[f].faithful = kept
    BY <1>2
  <1> HIDE DEF Created
  <1>10. ~group[f].located => last = first
    BY <1>3, <1>4, <1>5, <1>e
  <1>11. stream.dropped = 0 => last <= read
    BY <1>5, <1>d
  <1>12. Created.files[f].faithful => Created.files[f].size = Created.files[f].to - Created.files[f].from
    BY <1>8, <1>9, <1>g
  <1>13. stream.dropped = 0 => Created.files[f].faithful = group[f].faithful
    BY <1>9, <1>i
  <1> QED
    BY <1>6, <1>7, <1>8, <1>c, <1>10, <1>11, <1>12, <1>13

\* What CreateBundle makes is what BundleUnpack assumes of a bundle.
LEMMA CreatedIsWellCut == CreateInv /\ disk.document => WellCut(Created)
  <1> SUFFICES ASSUME CreateInv, disk.document PROVE WellCut(Created)
    OBVIOUS
  <1>1. /\ group \in Seq(Entries) /\ Len(group) \in Nat /\ disk.chunk \in Nat
        /\ chunkSize \in Nat \ {0}
    BY DocumentFacts
  <1>2. /\ Created.chunkSize = chunkSize
        /\ Created.ends = <<disk.chunk>>
        /\ Created.files = [f \in 1..Len(group) |-> Created.files[f]]
        /\ DOMAIN Created.files = 1..Len(group)
    BY <1>1 DEF Created
  <1>3. \A f \in 1..Len(group) : Created.files[f] \in BundleFile
    BY CreatedFile
  <1> HIDE DEF Created
  <1>4. Created.files \in Seq(BundleFile)
    BY <1>1, <1>2, <1>3
  <1>5. /\ Created.ends \in Seq(Nat)
        /\ DOMAIN Created.ends = {1}
        /\ Len(Created.ends) = 1
        /\ Created.ends[1] = disk.chunk
    BY <1>1, <1>2
  <1>6. \A c \in DOMAIN Created.ends :
          /\ ChunkEnd(Created, c - 1) <= Created.ends[c]
          /\ c < Len(Created.ends) => Created.chunkSize <= ChunkLength(Created, c)
    BY <1>1, <1>5 DEF ChunkEnd
  <1>7. \A f \in DOMAIN Created.files :
          /\ Created.files[f].from = Boundary(Created, f)
          /\ Created.files[f].from <= Created.files[f].to
          /\ ~Created.files[f].located => Created.files[f].to = Created.files[f].from
          /\ Created.files[f].faithful =>
               Created.files[f].size = Created.files[f].to - Created.files[f].from
    BY <1>2, CreatedFile
  <1> QED
    BY <1>1, <1>2, <1>4, <1>5, <1>6, <1>7 DEF WellCut

\* Made on a disk that opened the streams and lost nothing from files that are what the group says,
\* it is faithful.
LEMMA CreatedIsFaithful ==
  ASSUME CreateInv, disk.document, ~stream.lost, stream.opened = "yes",
         \A f \in DOMAIN group : group[f].located => group[f].faithful
  PROVE  Faithful(Created)
  <1>1. /\ group \in Seq(Entries) /\ Len(group) \in Nat /\ disk.chunk \in Nat
        /\ disk.chunk = read - stream.dropped /\ stream.dropped = 0 /\ read \in Nat
    BY DocumentFacts DEF CreateInv, LoopInv
  <1>2. /\ Created.ends = <<disk.chunk>>
        /\ DOMAIN Created.files = 1..Len(group)
    BY <1>1 DEF Created
  <1>3. ChunkEnd(Created, Len(Created.ends)) = read
    BY <1>1, <1>2 DEF ChunkEnd
  <1>4. \A f \in 1..Len(group) :
          /\ Created.files[f].to <= read
          /\ Created.files[f].located = group[f].located
          /\ Created.files[f].faithful = group[f].faithful
    BY <1>1, CreatedFile
  <1>5. \A f \in 1..Len(group) : group[f].located => group[f].faithful
    BY <1>1
  <1> HIDE DEF Created
  <1> QED
    BY <1>2, <1>3, <1>4, <1>5 DEF Faithful
--------------------------------------------------------------------------
(* Both programs.  Before the import Unpack was not called; afterwards the *)
(* bundle is the one CreateBundle left.                                    *)

BundleInv ==
  /\ CreateInv
  /\ RestoreInv
  /\ CleanInv
  /\ bundle = NoBundle => pc = "idle" /\ result = "none"
  /\ bundle # NoBundle => disk.document /\ bundle = Created

LEMMA BundleInvInit == BundleInit => BundleInv
  <1> SUFFICES ASSUME BundleInit PROVE BundleInv
    OBVIOUS
  <1>1. CreateInv /\ RestoreInv /\ CleanInv
    BY InitCreate, RestoreInit, CleanInit DEF BundleInit
  <1>2. bundle = NoBundle /\ pc = "idle" /\ result = "none"
    BY NothingAssumption DEF BundleInit, Init
  <1> QED
    BY <1>1, <1>2 DEF BundleInv

LEMMA BundleInvNext == BundleInv /\ [BundleNext]_<<createVars, vars>> => BundleInv'
  <1> SUFFICES ASSUME BundleInv, [BundleNext]_<<createVars, vars>> PROVE BundleInv'
    OBVIOUS
  <1>a. CreateInv /\ RestoreInv /\ CleanInv /\ TypeOK
    BY DEF BundleInv, RestoreInv
  <1>1. CASE Create
    <2>1. CreateNext /\ UNCHANGED vars
      BY <1>1 DEF Create
    <2>2. CreateInv' /\ RestoreInv' /\ CleanInv'
      BY <1>a, <2>1, CreateInvNext, RestoreNext, CleanNext
    <2>3. bundle = NoBundle
      BY <1>a, <2>1, DocumentFacts, DoneIsDone DEF BundleInv
    <2> QED
      BY <2>1, <2>2, <2>3 DEF BundleInv, vars
  <1>2. CASE Import
    <2>1. /\ disk.document /\ bundle = NoBundle /\ bundle' = Created
          /\ output' = [f \in DOMAIN group |-> "absent"]
          /\ UNCHANGED <<createVars, pc, source, index, from, reading, faulted, result>>
          /\ pc = "idle" /\ result = "none"
      BY <1>2 DEF Import, BundleInv
    <2>2. CreateInv' /\ Created' = Created /\ disk' = disk
      <3>1. UNCHANGED createVars
        BY <2>1
      <3> QED
        BY <1>a, <3>1, CreateInvNext DEF createVars, Created, InChunk
    <2>3. WellCut(Created)
      BY <1>a, <2>1, CreatedIsWellCut
    <2>4. /\ DOMAIN Created.files = DOMAIN group
          /\ Len(Created.files) \in Nat /\ Len(Created.ends) \in Nat
      BY <2>3 DEF Created, WellCut
    <2>5. index = 1 /\ next = 1
      BY <1>a, <2>1 DEF TypeOK, NoBundle
    <2>6. TypeOK'
      <3> HIDE DEF Created
      <3>1. output' \in [DOMAIN bundle'.files -> {"absent", "partial", "good", "short"}]
        BY <2>1, <2>4
      <3>2. index' \in 1..(Len(bundle'.files) + 1) /\ next' \in 1..(Len(bundle'.ends) + 1)
        BY <2>1, <2>4, <2>5 DEF reading
      <3> QED
        BY <1>a, <2>1, <2>3, <3>1, <3>2 DEF TypeOK, reading
    <2>7. RestoreInv' /\ CleanInv'
      BY <2>1, <2>6 DEF RestoreInv, PassedAreGood, UnpackRestores, CleanInv
    <2> QED
      BY <2>1, <2>2, <2>7 DEF BundleInv
  <1>3. CASE Unpack
    <2>1. bundle # NoBundle /\ Next /\ UNCHANGED createVars
      BY <1>3 DEF Unpack
    <2>2. CreateInv' /\ RestoreInv' /\ CleanInv'
      BY <1>a, <2>1, CreateInvNext, RestoreNext, CleanNext
    <2>3. bundle' = bundle
      BY <2>1 DEF Next, Proceed, Call, ReadGroup, SkipFile, OpenOutput, FetchChunk,
         AppendToCache, NoMoreChunks, Take, CloseFile, ExportGroup, Fail
    <2>4. Created' = Created /\ disk' = disk
      BY <2>1 DEF createVars, Created, InChunk
    <2> QED
      BY <2>1, <2>2, <2>3, <2>4 DEF BundleInv
  <1>4. CASE UNCHANGED <<createVars, vars>>
    <2>1. CreateInv' /\ RestoreInv' /\ CleanInv'
      BY <1>a, <1>4, CreateInvNext, RestoreNext, CleanNext
    <2>2. Created' = Created
      BY <1>4 DEF createVars, Created, InChunk
    <2> QED
      BY <1>4, <2>1, <2>2 DEF BundleInv, vars, createVars
  <1> QED
    BY <1>1, <1>2, <1>3, <1>4 DEF BundleNext

LEMMA BundleInvHolds == BundleSpec => []BundleInv
  BY BundleInvInit, BundleInvNext, PTL DEF BundleSpec

\* CreateBundle and Unpack keep their types, no piece is read beyond the end
\* of a file, the loop of CreateBundle never turns on a chunk it has exported,
\* and the bundle it leaves is one that BundleUnpack is about.
THEOREM BundleTypeCorrect == BundleSpec => []BundleTypeOK
  <1>1. CreateInv => CreateTypeOK
    <2> SUFFICES ASSUME CreateInv PROVE CreateTypeOK
      OBVIOUS
    <2> QED
      BY DEF CreateInv, LoopInv, SpansInv, StreamInv, DiskInv, CreateTypeOK, Streaming
  <1>2. BundleInv => BundleTypeOK
    BY <1>1 DEF BundleInv, RestoreInv, BundleTypeOK
  <1> QED
    BY <1>2, BundleInvHolds, PTL

\* The chunk of a CreateBundle that reports SUCCESS has every byte of every
\* file, unless the disk lost some or did not open a stream, although the
\* results of the stream and of its writes are not looked at.
THEOREM ChunkCorrect == BundleSpec => []ChunkIsWhole
  <1>1. BundleInv => ChunkIsWhole
    BY DEF BundleInv, CreateInv, LoopInv, DiskInv, ChunkIsWhole
  <1> QED
    BY <1>1, BundleInvHolds, PTL

\* CreateBundle uses streams that do not exist only when it had nothing to put
\* into them, could not open the raw one for writing, or could not open what
\* was written for reading.
THEOREM CrashCorrect == BundleSpec => []CrashExplained
  <1>1. BundleInv => CrashExplained
    <2> SUFFICES ASSUME BundleInv PROVE CrashExplained
      OBVIOUS
    <2>1. DOMAIN group = 1..Len(group)
      BY DEF BundleInv, CreateInv, LoopInv
    <2> QED
      BY <2>1 DEF BundleInv, CreateInv, DiskInv, CrashExplained
  <1> QED
    BY <1>1, BundleInvHolds, PTL

\* The document of a bundle is written after its chunk and its group.
THEOREM DocumentCorrect == BundleSpec => []DocumentLast
  <1>1. BundleInv => DocumentLast
    BY EntriesAssumption DEF BundleInv, CreateInv, DiskInv, DocumentLast
  <1> QED
    BY <1>1, BundleInvHolds, PTL

\* A bundle of any files, any chunk size and any size of pieces, made on a
\* disk that opened the streams and lost nothing, is unpacked into the files the group describes.
THEOREM RoundTripCorrect == BundleSpec => []RoundTrip
  <1>1. BundleInv => RoundTrip
    <2> SUFFICES ASSUME BundleInv, bundle # NoBundle, ~stream.lost, stream.opened = "yes",
                        \A f \in DOMAIN group : group[f].located => group[f].faithful,
                        pc = "idle", ~faulted
                 PROVE  result \in {"none", "SUCCESS"}
      BY DEF BundleInv, RestoreInv, RoundTrip
    <2>1. Faithful(bundle)
      BY CreatedIsFaithful DEF BundleInv
    <2> QED
      BY <2>1 DEF BundleInv, CleanInv
  <1> QED
    BY <1>1, BundleInvHolds, PTL
==========================================================================

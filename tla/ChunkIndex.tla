---------------------------- MODULE ChunkIndex ----------------------------
(***************************************************************************)
(* Where a chunk of the next file occurs in the previous one: the rolling  *)
(* checksum of every window of the previous file, the index files that     *)
(* keep the windows which may be asked for, sorted by checksum, and the    *)
(* binary search in them.  Bytes are numbers.                              *)
(***************************************************************************)
EXTENDS FileStreams, Orders, SequencesExt

CONSTANTS
  ChecksumModulo,     \* ROLLING_CHECKSUM_MODULO, 2^16 in the code
  BlocksPerFile,      \* BLOCKS_PER_FILE, 2^26 in the code
  OffsetModulo,       \* 2^32 in the code: an index file has uint32_t offsets
  NoMatch

ASSUME ChunkIndexAssumption ==
  /\ ChecksumModulo \in Nat \ {0}
  /\ BlocksPerFile \in Nat \ {0}
  /\ OffsetModulo \in Nat \ {0}
  /\ NoMatch \notin Nat

Minus(a, b) == (a + ChecksumModulo - (b % ChecksumModulo)) % ChecksumModulo

\* The checksum of a piece, from its bytes: the sums after the first k.
FullChecksum(piece) ==
  LET n == Len(piece)
      sum[k \in 0..n] ==
        IF k = 0 THEN [alpha |-> 0, beta |-> 0]
        ELSE [alpha |-> sum[k - 1].alpha + piece[k],
              beta  |-> sum[k - 1].beta + (n - k + 1) * piece[k]]
  IN  [alpha |-> sum[n].alpha % ChecksumModulo,
       beta  |-> sum[n].beta % ChecksumModulo]

\* A plausible slip: the byte that leaves is weighed as if it came first.
RolledByOneLess(sum, out, in, length) ==
  LET alpha == Minus(sum.alpha + in, out)
  IN  [alpha |-> alpha, beta |-> Minus(sum.beta + alpha, (length - 1) * out)]

\* The same for the window that starts one byte later.
Rolled(sum, out, in, length) ==
  LET alpha == Minus(sum.alpha + in, out)
  IN  [alpha |-> alpha, beta |-> Minus(sum.beta + alpha, length * out)]

Checksum(sum) == sum.alpha + sum.beta * ChecksumModulo

\* What Generate computes for the window at each offset of a file.
RollingSums(file, length) ==
  LET sum[k \in 0..(Len(file) - length)] ==
        IF k = 0
        THEN FullChecksum(Piece(file, 0, length))
        ELSE Rolled(sum[k - 1], file[k], file[k + length], length)
  IN  sum

\* The chunks CreatePatch will look for: the last one may be short.
ChecksumFilter(next, length) ==
  {Checksum(FullChecksum(Piece(next, i * length, length))) :
     i \in {j \in 0..Len(next) : j * length < Len(next)}}

IsRelevant(filter, checksum) == filter = {} \/ checksum \in filter
---------------------------------------------------------------------------
\* The windows of the previous file that get an entry.
RelevantWindows(previous, next, length) ==
  LET sums   == RollingSums(previous, length)
      filter == ChecksumFilter(next, length)
  IN  {k \in DOMAIN sums : IsRelevant(filter, Checksum(sums[k]))}

\* m_currentIndexFile when the entry of a window is made: it advances with
\* every BLOCKS_PER_FILE entries, whether or not the file can be opened.
FileNumber(windows, k) ==
  Cardinality({j \in windows : j < k}) \div BlocksPerFile

\* Flush: the file an entry is written to.  When a file cannot be opened (its
\* number is in lost) the entries stay in memory and go to the next file.
WrittenTo(windows, k, lost) ==
  LET n == FileNumber(windows, k)
  IN  Min((n..(n + Cardinality(lost))) \ lost)

Before(a, b) ==
  \/ a.checksum < b.checksum
  \/ a.checksum = b.checksum /\ a.relative < b.relative

\* A plausible slip: an offset is cut down to what a file has room for.
RelativeToFile(previous, windows, k, length) ==
  [checksum |-> Checksum(FullChecksum(Piece(previous, k, length))),
   relative |-> k % BlocksPerFile]

\* Offsets are relative to the number of the file when the entry is made,
\* and cast to 32 bits.
Entry(previous, windows, k, length) ==
  [checksum |-> Checksum(RollingSums(previous, length)[k]),
   relative |-> (k - FileNumber(windows, k) * BlocksPerFile) % OffsetModulo]

\* An index file: the entries of some windows, sorted.  Windows of one file
\* that are 4 GB apart may have equal entries.
SortedFile(entry, windows) ==
  LET Earlier(j, k) ==
        Before(entry[j], entry[k]) \/ (entry[j] = entry[k] /\ j < k)
      order == InOrder(windows, Earlier)
  IN  [i \in DOMAIN order |-> entry[order[i]]]

\* Generate: the index files for the windows of `previous` that are relevant
\* to `next`; entries left over when the last file cannot be written are
\* lost.
Generate(previous, next, length, lost) ==
  LET windows == RelevantWindows(previous, next, length)
      entry   == [k \in windows |-> Entry(previous, windows, k, length)]
      In(n)   == {k \in windows : WrittenTo(windows, k, lost) = n}
      last    == Cardinality(windows) \div BlocksPerFile
      order   == Ascending({n \in (0..last) \ lost : In(n) # {}})
  IN  [i \in 1..Len(order) |-> SortedFile(entry, In(order[i]))]
---------------------------------------------------------------------------
\* Where a binary search of n entries may still look.
Ranges(n) == {range \in (0..n) \X (0..n) : range[1] <= range[2]}

\* A plausible slip: the middle is left out although `end` already is.
HitBesideMiddle(file, checksum) ==
  LET n == Len(file)
      hit[range \in Ranges(n)] ==
        LET beginning == range[1]
            end       == range[2]
            pos       == (beginning + end) \div 2
        IN  IF beginning = end \/ pos = n THEN NoMatch
            ELSE IF file[pos + 1].checksum = checksum THEN pos
            ELSE IF file[pos + 1].checksum > checksum
            THEN hit[<<beginning, Greatest(pos, beginning + 1) - 1>>]
            ELSE hit[<<pos + 1, end>>]
  IN  hit[<<0, n>>]

\* FindMatchingChunksInFile: the entry the binary search stops at.  A read
\* behind the last entry leaves `current` as it was, below the checksum.
Hit(file, checksum) ==
  LET n == Len(file)
      hit[range \in Ranges(n)] ==
        LET beginning == range[1]
            end       == range[2]
            pos       == (beginning + end) \div 2
        IN  IF pos = n THEN NoMatch
            ELSE IF file[pos + 1].checksum = checksum THEN pos
            ELSE IF beginning = end THEN NoMatch
            ELSE IF file[pos + 1].checksum > checksum
            THEN hit[<<beginning, pos>>]
            ELSE hit[<<IF beginning = pos THEN pos + 1 ELSE pos, end>>]
  IN  hit[<<0, n>>]

\* The walk from the hit to the last entry reads one entry more.  That read
\* fails and leaves `current` alone, so it passes for another match if the
\* entry read before it was one: the one before the end, or, for a hit on
\* the last entry, the one at which the walk back has stopped.
ReadsPastEnd(file, checksum) ==
  LET n == Len(file)
  IN  /\ Hit(file, checksum) # NoMatch
      /\ file[n].checksum = checksum
      /\ Hit(file, checksum) = n - 1 => file[1].checksum = checksum

\* FindChunkOffsets: the base of a file is its place among the files that
\* could be written.  The entries around the hit have the same checksum; of
\* an entry past the end `relative` is never initialized, and unread[f] is
\* what it happens to be in file f.
ChunkOffsets(index, checksum, unread) ==
  LET hits == {f \in DOMAIN index : Hit(index[f], checksum) # NoMatch}
      InFile(f) == {i \in DOMAIN index[f] : index[f][i].checksum = checksum}
  IN  (UNION {{(f - 1) * BlocksPerFile + index[f][i].relative : i \in InFile(f)} : f \in hits})
        \cup {(f - 1) * BlocksPerFile + unread[f] :
                f \in {g \in hits : ReadsPastEnd(index[g], checksum)}}

\* The first candidate: the entry the search stops at, in the first file
\* that has one.  No base is added, whichever file that is.
FirstWithChecksum(index, checksum) ==
  LET hits  == {f \in DOMAIN index : Hit(index[f], checksum) # NoMatch}
      first == Min(hits)
  IN  IF hits = {} THEN NoMatch
      ELSE index[first][Hit(index[first], checksum) + 1].relative

\* A plausible slip: a candidate is taken for a match.
FirstCandidate(index, previous, chunk) ==
  FirstWithChecksum(index, Checksum(FullChecksum(chunk)))

\* FindMatchingChunk: the digest of the old bytes is made once, for the
\* first candidate, so no other candidate can ever match.
FindMatchingChunk(index, previous, chunk) ==
  LET offset == FirstWithChecksum(index, Checksum(FullChecksum(chunk)))
  IN  IF offset # NoMatch /\ Piece(previous, offset, Len(chunk)) = chunk
      THEN offset
      ELSE NoMatch

\* CountMatchingChunks: both files are read in parallel, from an offset
\* each, until one of the streams has closed itself or the chunks differ.
CountMatchingChunks(a, offsetA, b, offsetB, size) ==
  LET Readable(file, offset, k) ==
        k = 0 \/ offset > Len(file) \/ offset + k * size < Len(file)
      Agree(k) ==
        /\ Readable(a, offsetA, k) /\ Readable(b, offsetB, k)
        /\ Piece(a, offsetA + k * size, size) = Piece(b, offsetB + k * size, size)
  IN  Cardinality({n \in 0..Len(a) : \A k \in 0..n : Agree(k)})
===========================================================================

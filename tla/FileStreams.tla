--------------------------- MODULE FileStreams ---------------------------
(***************************************************************************)
(* FileDataStreamIn: a file, a sequence of bytes, is read piece by piece.  *)
(* A stream is a record: position is m_currentPosition, reading is         *)
(* m_readInProgress.  The stream closes itself when a read ends exactly at *)
(* the end of the file; it stays open when it was moved beyond it, and a   *)
(* read then gives nothing and succeeds.                                   *)
(***************************************************************************)
EXTENDS Naturals, Sequences

Least(a, b) == IF a < b THEN a ELSE b

Greatest(a, b) == IF a < b THEN b ELSE a

\* Up to count bytes of a file, from an offset that may be beyond its end.
Piece(file, offset, count) ==
  SubSeq(file, offset + 1, Least(offset + count, Len(file)))

StartRead == [position |-> 0, reading |-> TRUE]

\* A seek does not open a stream that has closed itself.
Seek(stream, position) == [stream EXCEPT !.position = position]

\* operator>>: the bytes are Piece(file, stream.position, count).
Read(stream, file, count) ==
  LET end == Greatest(stream.position, Least(stream.position + count, Len(file)))
  IN  [position |-> end, reading |-> end # Len(file)]
===========================================================================

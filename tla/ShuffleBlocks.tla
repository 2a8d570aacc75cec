---------------------------- MODULE ShuffleBlocks ----------------------------
(***************************************************************************)
(* The format of shuffle blocks, which native code writes and the shuffle  *)
(* reader decodes.  A file is a sequence of 4-byte cells: a block is its   *)
(* length (8 bytes, not counting themselves), the number of fields         *)
(* (8 bytes), the codec (4 bytes) and the encoded rows, one cell each.     *)
(***************************************************************************)
EXTENDS Integers, Sequences, SequencesExt

LOCAL Least(a, b) == IF a < b THEN a ELSE b

Cell(kind, value) == [kind |-> kind, value |-> value]

LengthCells == 2   \* cells of the length, and of the field count

(* ShuffleBlockWriter.write_batch; an empty batch writes nothing. *)
WriteBatch(rows) ==
    LET body == <<Cell("fields", 1), Cell("fields", 1), Cell("codec", 0)>>
                  \o [i \in DOMAIN rows |-> Cell("row", rows[i])]
        length == Cell("length", Len(body))
    IN  IF rows = <<>> THEN <<>> ELSE <<length, length>> \o body

(* PartitionedBatchIterator: the rows in batches of at most batchSize *)
BatchesOf(rows, batchSize) ==
    [k \in 1 .. (Len(rows) + batchSize - 1) \div batchSize |->
        SubSeq(rows, (k - 1) * batchSize + 1, Least(k * batchSize, Len(rows)))]

(* A BufBatchWriter over all those batches, flushed *)
WriteAll(rows, batchSize) ==
    LET batches == BatchesOf(rows, batchSize)
    IN  FlattenSeq([k \in DOMAIN batches |-> WriteBatch(batches[k])])

-----------------------------------------------------------------------------
(* Mutant: a block that is cut short ends the stream. *)
FetchNextShortBodyEnds(stream, pos) ==
    LET left == Len(stream) - pos
        bytesToRead == stream[pos + 1].value - LengthCells
        body == pos + 2 * LengthCells
    IN  IF left < LengthCells
          THEN [end |-> IF left = 0 THEN "eof" ELSE "corrupt", pos |-> Len(stream), rows |-> <<>>]
        ELSE IF left < 2 * LengthCells \/ Len(stream) - body < bytesToRead
          THEN [end |-> "eof", pos |-> Len(stream), rows |-> <<>>]
        ELSE [end |-> "block",
              pos |-> body + bytesToRead,
              rows |-> [i \in 1 .. bytesToRead - 1 |-> stream[body + 1 + i].value]]

(* NativeBatchDecoderIterator.fetchNext, reading a stream from pos.  The   *)
(* result has the position reached and says how the call ended: with the   *)
(* rows of a block, at the end of the stream, or with an exception.        *)
FetchNext(stream, pos) ==
    LET left == Len(stream) - pos
        bytesToRead == stream[pos + 1].value - LengthCells
        body == pos + 2 * LengthCells
    IN  IF left < LengthCells
          THEN [end |-> IF left = 0 THEN "eof" ELSE "corrupt", pos |-> Len(stream), rows |-> <<>>]
        ELSE IF left < 2 * LengthCells \/ Len(stream) - body < bytesToRead
          THEN [end |-> "corrupt", pos |-> Len(stream), rows |-> <<>>]
        ELSE [end |-> "block",
              pos |-> body + bytesToRead,
              rows |-> [i \in 1 .. bytesToRead - 1 |-> stream[body + 1 + i].value]]

(* All the rows of a stream, up to its end or to the first corruption *)
DecodeAll(stream) ==
    LET rowsFrom[pos \in 0 .. Len(stream)] ==
            LET r == FetchNext(stream, pos)
            IN  IF r.end = "block" THEN r.rows \o rowsFrom[r.pos] ELSE <<>>
    IN  rowsFrom[0]

=============================================================================

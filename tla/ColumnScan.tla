----------------------------- MODULE ColumnScan -----------------------------
(* Reading one column chunk of a row group in batches, through the native   *)
(* ColumnReader and one of the Java readers that drive it: the eager        *)
(* ColumnReader, the LazyColumnReader (which skips the rows nobody asks     *)
(* for), and the constant, row-index and delete-marker readers (package     *)
(* org.apache.comet.parquet).  A reader serves one chunk; BatchReader makes *)
(* a new one for every row group.                                           *)
EXTENDS ColumnReader, FiniteSets

CONSTANTS Columns,     \* the columns read: see MCColumnScan
          Capacity,    \* batch size of the readers
          GroupSize    \* values in one bit-packed group, 8 in Parquet

VARIABLES column, reader, start, asked

vars == <<column, reader, start, asked>>

----------------------------------------------------------------------------
(* The file: how a Parquet writer lays out the pages.                       *)

Raw(desc, v) ==
    CASE desc.physical = "BOOLEAN"    -> <<v>>
      [] desc.physical = "INT32"      -> Bytes(4, v)
      [] desc.physical = "INT64"      -> Bytes(8, v)
      [] desc.physical = "FLOAT"      -> Float(4, v)
      [] desc.physical = "DOUBLE"     -> Float(8, v)
      [] desc.physical = "INT96"      -> Bytes(8, v[2]) \o Bytes(4, v[1])
      [] desc.physical = "BYTE_ARRAY" -> Bytes(4, Len(v)) \o v
      [] desc.physical = "FLBA" /\ desc.logical = "Decimal" -> Reverse(Bytes(desc.length, v))
      [] desc.physical = "FLBA" /\ desc.logical # "Decimal" -> v

\* xs as bit-packed groups, padded to whole ones, or as runs of equal values.
Packed(xs) ==
    LET n == ((Len(xs) + GroupSize - 1) \div GroupSize) * GroupSize
    IN  IF xs = <<>> THEN <<>>
        ELSE <<[rle |-> FALSE, count |-> n, values |-> xs \o Zeros(n - Len(xs))]>>

RunLengths(xs) ==
    FoldLeft(LAMBDA runs, x :
                 IF runs # <<>> /\ Last(runs).values = <<x>>
                   THEN [runs EXCEPT ![Len(runs)].count = @ + 1]
                   ELSE Append(runs, [rle |-> TRUE, count |-> 1, values |-> <<x>>]),
             <<>>, xs)

\* The writer may change form at any point: first run-lengths, then packed.
Mixed(xs) ==
    LET n == Len(xs) \div 2 IN RunLengths(SubSeq(xs, 1, n)) \o Packed(SubSeq(xs, n + 1, Len(xs)))

Runs(form, xs) ==
    CASE form = "rle" -> RunLengths(xs) [] form = "packed" -> Packed(xs) [] form = "mixed" -> Mixed(xs)

\* Present values of rows, each <<>> or <<value>>.
Values(rows) == FlattenSeq(rows)

Dictionary(rows) == SetToSeq({Values(rows)[i] : i \in 1..Len(Values(rows))})

IndexIn(dict, v) == (CHOOSE i \in 1..Len(dict) : dict[i] = v) - 1

Page(col, dict, rows, layout) ==
    [count    |-> Len(rows),
     v2       |-> layout.v2,
     encoding |-> layout.encoding,
     levels   |-> Runs(layout.form, [i \in 1..Len(rows) |-> Len(rows[i])]),
     data     |-> IF layout.encoding = "PLAIN"
                    THEN FlattenSeq([i \in 1..Len(Values(rows)) |-> Raw(col.desc, Values(rows)[i])])
                    ELSE Runs(layout.form,
                              [i \in 1..Len(Values(rows)) |-> IndexIn(dict, Values(rows)[i])])]

\* Pages of col, whose layouts say how many rows each takes.
DictionaryRows(col) ==
    FoldLeft(LAMBDA st, layout :
                 <<st[1] + layout.rows,
                   IF layout.encoding = "PLAIN" THEN st[2]
                   ELSE st[2] \o SubSeq(col.rows, st[1] + 1, st[1] + layout.rows)>>,
             <<0, <<>>>>, col.pages)[2]

Pages(col, dict) ==
    FoldLeft(LAMBDA st, layout :
                 <<st[1] + layout.rows,
                   Append(st[2], Page(col, dict, SubSeq(col.rows, st[1] + 1, st[1] + layout.rows), layout))>>,
             <<0, <<>>>>, col.pages)[2]

----------------------------------------------------------------------------
(* What Spark reads: the getters of CometPlainVector, by Spark type.        *)

getDecimal(col, v, i) ==
    CASE ~col.use_decimal_128 /\ col.promo.precision <= MaxIntDigits /\ v.data_type.name = "Int32" ->
           Signed(Slice(v.values, i * 4, 4))
      [] col.promo.precision <= MaxLongDigits
            /\ ~(~col.use_decimal_128 /\ col.promo.precision <= MaxIntDigits /\ v.data_type.name = "Int32") ->
           Signed(Slice(v.values, i * (IF col.use_decimal_128 THEN 16 ELSE 8), 8))
      [] col.promo.precision > MaxLongDigits -> Signed(Slice(v.values, i * 16, 16))

getBinary(v, i) ==
    IF is_binary_type(v.data_type)
      THEN LET from == Unsigned(Slice(v.values, i * 4, 4))
           IN  Slice(v.child, from, Unsigned(Slice(v.values, i * 4 + 4, 4)) - from)
      ELSE Slice(v.values, i * v.data_type.p, v.data_type.p)

GetPlain(col, v, i) ==
    CASE col.spark = "boolean" -> v.values[i + 1]
      [] col.spark = "byte"    -> Signed(Slice(v.values, i, 1))
      [] col.spark = "short"   -> Signed(Slice(v.values, i * 2, 2))
      [] col.spark = "int"     -> Signed(Slice(v.values, i * 4, 4))
      [] col.spark = "long"    -> Signed(Slice(v.values, i * 8, 8))
      [] col.spark = "float"   -> FloatValue(Slice(v.values, i * 4, 4))
      [] col.spark = "double"  -> FloatValue(Slice(v.values, i * 8, 8))
      [] col.spark = "decimal" -> getDecimal(col, v, i)
      [] col.spark = "binary"  -> getBinary(v, i)

\* A null count of none or all replaces the bitmap when Arrow Java imports it.
IsNullAt(v, i) == v.null_count > 0 /\ (v.null_count = v.len \/ v.null_bits[i + 1] = 0)

\* Row i of the current vector: <<>> for null.
Get(col, v, i) ==
    IF IsNullAt(v, i) THEN <<>>
    ELSE IF v.dictionary = <<>> THEN <<GetPlain(col, v, i)>>
    ELSE <<GetPlain(col, v.dictionary[1], Signed(Slice(v.values, i * 4, 4)))>>

----------------------------------------------------------------------------
(* ColumnReader.java and LazyColumnReader.java.  s is the reader's state.   *)

NewReader(col, kind) ==
    [kind |-> kind, pages |-> <<>>, failed |-> FALSE, firstPageLoaded |-> FALSE,
     native |-> initColumnReader(col.desc, col.promo, Capacity, col.use_decimal_128, col.legacy),
     batchSize |-> 0, currentNumValues |-> 0, lastSkippedRowId |-> Capacity + 1,
     isPageDrained |-> TRUE, numRowsToSkipFromPrevBatch |-> 0, offset |-> 0]

setPageReader(s, col) ==
    LET dict == Dictionary(DictionaryRows(col))
        data == FlattenSeq([i \in 1..Len(dict) |-> Raw(col.desc, dict[i])])
    IN  [s EXCEPT !.pages = Pages(col, dict),
                  !.native = IF \A i \in DOMAIN col.pages : col.pages[i].encoding = "PLAIN" THEN @
                             ELSE setDictionaryPage(@, Len(dict), data, "PLAIN")]

readPage(s) ==
    IF s.pages = <<>> THEN [s EXCEPT !.failed = TRUE]
    ELSE [s EXCEPT !.pages = Tail(@),
                   !.native = IF Head(s.pages).v2 THEN setPageV2(@, Head(s.pages))
                                                  ELSE setPageV1(@, Head(s.pages))]

PageUnless(loaded, s) == IF loaded THEN s ELSE readPage(s)

RECURSIVE EagerLoop(_, _)
EagerLoop(s, left) ==
    IF left = 0 \/ s.failed THEN s
    ELSE LET n == Smaller(s.native.num_values_in_page, left)
         IN  EagerLoop(PageUnless(n = left, [s EXCEPT !.native = readBatch(@, left, 0)]), left - n)

ColumnReader_readBatch(s, total) ==
    LET first == [PageUnless(s.firstPageLoaded, s) EXCEPT !.firstPageLoaded = TRUE]
    IN  [EagerLoop([first EXCEPT !.native = resetBatch(@)], total)
            EXCEPT !.currentNumValues = total, !.lastSkippedRowId = -1]

\* Keeps a page that is exactly as long as the rows to skip.
RECURSIVE SkipsShorterPages(_, _, _)
SkipsShorterPages(s, total, skipped) ==
    LET count == Head(s.pages).count - s.numRowsToSkipFromPrevBatch
    IN  IF s.pages = <<>> THEN [s |-> [s EXCEPT !.failed = TRUE], skipped |-> skipped]
        ELSE IF count >= total THEN [s |-> s, skipped |-> skipped]
        ELSE SkipsShorterPages([s EXCEPT !.pages = Tail(@), !.numRowsToSkipFromPrevBatch = 0],
                               total - count, skipped + count)

\* Drops whole pages, without reading them, while they fit the rows to skip.
RECURSIVE SkipFittingPages(_, _, _)
SkipFittingPages(s, total, skipped) ==
    LET count == Head(s.pages).count - s.numRowsToSkipFromPrevBatch
    IN  IF s.pages = <<>> THEN [s |-> [s EXCEPT !.failed = TRUE], skipped |-> skipped]
        ELSE IF count > total THEN [s |-> s, skipped |-> skipped]
        ELSE SkipFittingPages([s EXCEPT !.pages = Tail(@), !.numRowsToSkipFromPrevBatch = 0],
                              total - count, skipped + count)

\* The rows that are left in the current page, as nulls.
SkipInPage(s, total) ==
    LET skipped == IF s.isPageDrained THEN 0 ELSE Smaller(s.native.num_values_in_page, total)
    IN  [s EXCEPT !.isPageDrained = total - skipped > 0, !.currentNumValues = @ + skipped,
                  !.native = IF s.isPageDrained THEN @ ELSE skipBatch(@, total, FALSE)]

SkipWholePages(s, rowId) ==
    IF s.isPageDrained THEN SkipFittingPages(s, rowId - s.currentNumValues, 0)
                       ELSE [s |-> s, skipped |-> 0]

\* Counts the row asked for among the skipped ones.
SkipsOneTooMany(r) ==
    [r EXCEPT !.s.currentNumValues = @ + r.skipped,
              !.s.lastSkippedRowId = r.s.currentNumValues + r.skipped]

RowsSkipped(r) ==
    [r EXCEPT !.s.currentNumValues = @ + r.skipped,
              !.s.lastSkippedRowId = r.s.currentNumValues + r.skipped - 1]

\* Returns the state and the number of rows of whole pages skipped.
tryPageSkip(s, rowId) ==
    IF rowId <= s.currentNumValues THEN [s |-> s, skipped |-> 0]
    ELSE RowsSkipped(SkipWholePages(SkipInPage(s, rowId - s.currentNumValues), rowId))

ReadWanted(s, want, pad) ==
    LET n == Smaller(s.native.num_values_in_page, want)
    IN  IF s.failed THEN s
        ELSE [s EXCEPT !.native = readBatch(@, want, pad), !.isPageDrained = n < want,
                       !.currentNumValues = @ + n]

RECURSIVE LazyLoop(_, _, _)
LazyLoop(s, rowId, pad) ==
    IF rowId < s.currentNumValues \/ s.failed THEN s
    ELSE LazyLoop(ReadWanted(PageUnless(~s.isPageDrained, s), s.batchSize - s.currentNumValues, pad),
                  rowId, pad)

\* The rows at the start of a page that the previous batch has skipped.
SkipLeftover(s, num) ==
    [s EXCEPT !.isPageDrained = FALSE, !.numRowsToSkipFromPrevBatch = 0,
              !.native = IF s.failed THEN @ ELSE skipBatch(@, num, TRUE)]

\* The private readBatch(rowId, numNullRowsToPad).
ReadUpTo(s, rowId, pad) ==
    LazyLoop(IF s.numRowsToSkipFromPrevBatch = 0 THEN s
             ELSE SkipLeftover(readPage(s), s.numRowsToSkipFromPrevBatch), rowId, pad)

ReadAfterSkip(r, rowId) == ReadUpTo(r.s, rowId, r.skipped)

NewBatch(s, before, total) ==
    [s EXCEPT !.numRowsToSkipFromPrevBatch = @ + (before - s.currentNumValues),
              !.native = resetBatch(@), !.batchSize = total, !.currentNumValues = 0,
              !.lastSkippedRowId = -1]

LazyColumnReader_readBatch(s, total) == NewBatch(tryPageSkip(s, s.batchSize).s, s.batchSize, total)

materializeUpToIfNecessary(s, rowId) ==
    CASE rowId <= s.lastSkippedRowId -> [s EXCEPT !.failed = TRUE]
      [] rowId > s.lastSkippedRowId /\ rowId < s.currentNumValues -> s
      [] rowId > s.lastSkippedRowId /\ rowId >= s.currentNumValues ->
           ReadAfterSkip(tryPageSkip(s, rowId), rowId)

readAllBatch(s) == ReadUpTo(s, s.batchSize - 1, 0)

----------------------------------------------------------------------------
(* ConstantColumnReader, RowIndexColumnReader and DeleteColumnReader.       *)

\* ConstantColumnReader.init; value is <<>> for null.
ConstantColumnReader_init(c, col) ==
    LET v == col.rows[1]
    IN  CASE v = <<>> -> setNull(c)
          [] v # <<>> /\ col.spark = "boolean" -> setBoolean(c, v[1])
          [] v # <<>> /\ col.spark = "byte"    -> setByte(c, v[1])
          [] v # <<>> /\ col.spark = "short"   -> setShort(c, v[1])
          [] v # <<>> /\ col.spark = "int"     -> setInt(c, v[1])
          [] v # <<>> /\ col.spark = "long"    -> setLong(c, v[1])
          [] v # <<>> /\ col.spark = "float"   -> setFloat(c, v[1])
          [] v # <<>> /\ col.spark = "double"  -> setDouble(c, v[1])
          [] v # <<>> /\ col.spark = "binary"  -> setBinary(c, v[1])
          [] v # <<>> /\ col.spark = "decimal" ->
               CASE ~col.use_decimal_128 /\ col.promo.precision <= MaxIntDigits -> setInt(c, v[1])
                 [] /\ ~col.use_decimal_128
                    /\ MaxIntDigits < col.promo.precision /\ col.promo.precision <= MaxLongDigits ->
                      setLong(c, v[1])
                 [] OTHER -> setDecimal(c, Reverse(Bytes(col.desc.length, v[1])))

RowIndexColumnReader_readBatch(s, total, pairs) ==
    LET filled == setIndices(resetBatch(s.native), s.offset, total, pairs)
    IN  [s EXCEPT !.native = filled.reader, !.offset = @ + filled.filled,
                  !.currentNumValues = filled.filled, !.lastSkippedRowId = -1]

DeleteColumnReader_readBatch(s, total, flags) ==
    [s EXCEPT !.native = setIsDeleted(resetBatch(@), flags),
              !.currentNumValues = total, !.lastSkippedRowId = -1]

MetadataColumnReader_readBatch(s, total) ==
    [s EXCEPT !.currentNumValues = total, !.lastSkippedRowId = -1]

----------------------------------------------------------------------------
(* The scan.                                                                *)

\* Rows the column has, for the readers of a chunk and of row indices.
NumRows(col, kind) ==
    CASE kind = "index" -> FoldLeft(LAMBDA n, pair : n + pair[2], 0, col.pairs)
      [] kind = "const" -> 2 * Capacity
      [] OTHER          -> Len(col.rows)

Init ==
    /\ column \in Columns
    /\ \E kind \in column.kinds :
         reader = CASE kind \in {"eager", "lazy"} -> setPageReader(NewReader(column, kind), column)
                    [] kind = "const" ->
                         [NewReader(column, kind) EXCEPT !.native = ConstantColumnReader_init(@, column)]
                    [] OTHER -> NewReader(column, kind)
    /\ start = 0
    /\ asked = -1

Alive == ~reader.failed /\ ~reader.native.panic

\* Rows of the batches before the next one.
Consumed_(s) == start + (IF s.kind = "lazy" THEN s.batchSize ELSE s.currentNumValues)

\* BatchReader.nextBatch: at most Capacity rows, never more than are left.
NextBatch(total) ==
    /\ Alive
    /\ Consumed_(reader) + total <= NumRows(column, reader.kind)
    /\ start' = Consumed_(reader)
    /\ asked' = -1
    /\ reader' = CASE reader.kind = "eager"  -> ColumnReader_readBatch(reader, total)
                   [] reader.kind = "lazy"   -> LazyColumnReader_readBatch(reader, total)
                   [] reader.kind = "const"  -> MetadataColumnReader_readBatch(reader, total)
                   [] reader.kind = "index"  -> RowIndexColumnReader_readBatch(reader, total, column.pairs)
                   [] reader.kind = "delete" ->
                        DeleteColumnReader_readBatch(reader, total,
                            FlattenSeq(SubSeq(column.rows, Consumed_(reader) + 1, Consumed_(reader) + total)))
    /\ UNCHANGED column

\* CometLazyVector.isNullAt and getters: rows are asked for in order.
Access(rowId) ==
    /\ Alive
    /\ reader.kind = "lazy"
    /\ asked <= rowId /\ rowId < reader.batchSize
    /\ reader' = materializeUpToIfNecessary(reader, rowId)
    /\ asked' = rowId
    /\ UNCHANGED <<column, start>>

\* CometLazyVector.getValueVector, hasNull and numNulls: nothing skipped yet.
ReadAll ==
    /\ Alive
    /\ reader.kind = "lazy"
    /\ reader.batchSize > 0
    /\ reader.lastSkippedRowId = -1
    /\ reader' = readAllBatch(reader)
    /\ asked' = reader.batchSize - 1
    /\ UNCHANGED <<column, start>>

Next ==
    \/ \E total \in 1..Capacity : NextBatch(total)
    \/ \E rowId \in 0..(Capacity - 1) : Access(rowId)
    \/ ReadAll

Spec == Init /\ [][Next]_vars

----------------------------------------------------------------------------
(* Properties.                                                              *)

\* Days or microseconds before the switch to the Gregorian calendar.
Ambiguous(col, v) ==
    CASE col.desc.logical = "Date"      -> v < SwitchDay /\ (~col.legacy \/ col.promo.physical = "INT64")
      [] col.desc.logical = "Timestamp" ->
           ~col.legacy /\ v * (IF col.desc.unit = "MILLIS" THEN MicrosPerMilli ELSE 1) < SwitchTs
      [] OTHER -> FALSE

\* The Spark value of a stored value v.
SparkValue(col, v) ==
    CASE col.desc.physical = "INT96" ->
           (v[1] - JulianEpoch) * MicrosPerDay + v[2] \div NanosPerMicro
      [] col.desc.logical = "Date" /\ col.promo.physical = "INT64" -> v * MicrosPerDay
      [] col.desc.logical = "Timestamp" /\ col.desc.unit = "MILLIS" -> v * MicrosPerMilli
      [] col.spark = "decimal" -> v * Radix^(col.promo.scale - col.desc.scale)
      [] OTHER -> v

\* Row k of the column, as Spark should see it.
ExpectedRow(k) ==
    CASE reader.kind = "const" -> column.rows[1]
      [] reader.kind = "index" ->
           <<FlattenSeq([i \in 1..Len(column.pairs) |->
                 [j \in 1..column.pairs[i][2] |-> column.pairs[i][1] + j - 1]])[k + 1]>>
      [] reader.kind = "delete" -> column.rows[k + 1]
      [] OTHER -> IF column.rows[k + 1] = <<>> THEN <<>>
                  ELSE <<SparkValue(column, column.rows[k + 1][1])>>

\* Every row of the batch that the reader lets Spark ask for holds the value
\* the file has in that row, through page boundaries, level runs, dictionary
\* pages, the fall-back to plain pages, skipped rows and skipped pages
\* (LazyColumnReader.materializeUpToIfNecessary, TypedColumnReader::read_batch).
\* The native vector has one entry for every row of the batch that was read
\* or skipped, and its null count, on which Arrow decides whether to look at
\* the bitmap, is the number of entries whose validity bit is off
\* (ParquetMutableVector::put_nulls, write_null!).
ReadsMatchColumn ==
    LET v == reader.native.vector
    IN  Alive =>
            /\ \A i \in 0..(reader.currentNumValues - 1) :
                  i > reader.lastSkippedRowId =>
                    Get(column, currentBatch(reader.native), i) = ExpectedRow(start + i)
            /\ reader.kind \in {"eager", "lazy"} =>
                  /\ v.num_values = reader.currentNumValues
                  /\ v.num_nulls = Cardinality({i \in 0..(v.num_values - 1) : is_null(v, i)})

\* Rows left over from the previous batch lie in the next page, which has
\* more than those: "It is always `columnPageReader.getPageValueCount() >
\* numRowsToSkipFromPriorBatch`" (LazyColumnReader.tryPageSkip).
LeftoverFitsNextPage ==
    Alive /\ reader.numRowsToSkipFromPrevBatch > 0 =>
        /\ reader.isPageDrained
        /\ reader.pages # <<>>
        /\ reader.numRowsToSkipFromPrevBatch < Head(reader.pages).count

\* A reader that is asked for rows in order within the chunk never reads past
\* its last page and never trips the assertion on skipped rows; a decoder
\* panics only on a chunk that holds an ambiguous date or timestamp
\* (ColumnReader.readPage, LazyColumnReader.materializeUpToIfNecessary).
ScanNeverFails ==
    /\ ~reader.failed
    /\ reader.native.panic =>
         \E i \in DOMAIN column.rows :
             column.rows[i] # <<>> /\ Ambiguous(column, column.rows[i][1])
=============================================================================

---------------------------- MODULE ColumnReader ----------------------------
(* The native reader of one Parquet column: the choice of a typed reader    *)
(* for a column and the type it is read as, the hybrid run decoders of      *)
(* definition levels and dictionary indices, and the batch operations       *)
(* (native/core/src/parquet/read/{column,levels,values}.rs and the JNI      *)
(* entry points of parquet/mod.rs).  The bytes of a hybrid run are the      *)
(* business of BitReader; here a run is [rle, count, values], and values    *)
(* has one element when rle.                                                *)
EXTENDS PlainValues

CONSTANTS MaxIntDigits, MaxLongDigits, UInt64Digits

Smaller(a, b) == IF a < b THEN a ELSE b

----------------------------------------------------------------------------
(* ColumnReader::get: <<T, Arrow type>> for a column descriptor and the     *)
(* type Spark reads it as.  A descriptor is                                 *)
(* [physical, logical, bits, signed, unit, length, precision, scale,        *)
(* max_def], a promotion [physical, precision, scale, bits].                *)

PromotedDecimal(promo) == Decimal128(promo.precision, promo.scale)

\* An integer column read as a decimal.
IntAsDecimal(promo) ==
    CASE promo.precision <= MaxIntDigits /\ promo.scale < 1 -> <<"Int32", Arrow("Int32")>>
      [] promo.precision <= MaxLongDigits /\ ~(promo.precision <= MaxIntDigits /\ promo.scale < 1) ->
           <<"Int32ToDecimal64", PromotedDecimal(promo)>>
      [] promo.precision > MaxLongDigits -> <<"Int32Decimal", PromotedDecimal(promo)>>

get_annotated_int32(desc, promo) ==
    CASE desc.signed /\ desc.bits < 32 /\ promo.physical = "FLBA" -> IntAsDecimal(promo)
      [] desc.signed /\ desc.bits < 32 /\ promo.physical = "INT64" -> <<"Int32To64", Arrow("Int64")>>
      [] desc.signed /\ desc.bits = 16 /\ promo.physical = "DOUBLE" ->
           <<"Int16ToDouble", Arrow("Float64")>>
      [] desc.signed /\ desc.bits < 32 /\ promo.physical = "INT32" /\ promo.bits = 32 ->
           <<"Int32", Arrow("Int32")>>
      [] desc.signed /\ desc.bits \in {8, 32} /\ promo.physical = "INT32" /\ promo.bits = 16 ->
           <<"Int16", Arrow("Int16")>>
      [] OTHER -> CASE ~desc.signed /\ desc.bits = 8  -> <<"UInt8", Arrow("Int16")>>
                    [] ~desc.signed /\ desc.bits = 16 -> <<"UInt16", Arrow("Int32")>>
                    [] ~desc.signed /\ desc.bits = 32 -> <<"UInt32", Arrow("Int64")>>
                    [] desc.signed /\ desc.bits = 8   -> <<"Int8", Arrow("Int8")>>
                    [] desc.signed /\ desc.bits = 16  -> <<"Int16", Arrow("Int16")>>
                    [] desc.signed /\ desc.bits = 32  -> <<"Int32", Arrow("Int32")>>

get_int32_decimal_or_date(desc, promo, use_decimal_128) ==
    CASE desc.logical = "Decimal" /\ (use_decimal_128 \/ promo.precision > MaxLongDigits) ->
           <<"Int32Decimal", PromotedDecimal(promo)>>
      [] desc.logical = "Decimal" /\ ~(use_decimal_128 \/ promo.precision > MaxLongDigits) ->
           <<"Int32ToDecimal64", PromotedDecimal(promo)>>
      [] desc.logical = "Date" /\ promo.physical = "INT64" ->
           <<"Int32TimestampMicros", Arrow("Timestamp")>>
      [] desc.logical = "Date" /\ promo.physical # "INT64" -> <<"Int32Date", Arrow("Date32")>>

get_plain_int32(promo) ==
    CASE promo.physical = "INT32" /\ promo.bits = 16 -> <<"Int16", Arrow("Int16")>>
      [] promo.physical = "INT32" /\ promo.bits # 16 -> <<"Int32", Arrow("Int32")>>
      [] promo.physical = "INT64"                    -> <<"Int32To64", Arrow("Int64")>>
      [] promo.physical = "DOUBLE"                   -> <<"Int32ToDouble", Arrow("Float64")>>
      [] promo.physical = "FLBA"                     -> IntAsDecimal(promo)

get_annotated_int64(desc, promo, use_decimal_128) ==
    CASE desc.logical = "Integer" /\ desc.signed  -> <<"Int64", Arrow("Int64")>>
      [] desc.logical = "Integer" /\ ~desc.signed -> <<"UInt64", Decimal128(UInt64Digits, 0)>>
      [] desc.logical = "Decimal" /\ (use_decimal_128 \/ promo.precision > MaxLongDigits) ->
           <<"Int64Decimal", PromotedDecimal(promo)>>
      [] desc.logical = "Decimal" /\ ~(use_decimal_128 \/ promo.precision > MaxLongDigits) ->
           <<"Int64ToDecimal64", PromotedDecimal(promo)>>
      [] desc.logical = "Timestamp" ->
           CASE desc.unit = "MILLIS" -> <<"Int64TimestampMillis", Arrow("Timestamp")>>
             [] desc.unit = "MICROS" -> <<"Int64TimestampMicros", Arrow("Timestamp")>>
             [] desc.unit = "NANOS"  -> <<"Int64", Arrow("Int64")>>

get_plain_int64(promo) ==
    IF promo.physical = "FLBA" /\ ~(promo.precision <= MaxLongDigits /\ promo.scale < 1)
      THEN <<"Int64Decimal", PromotedDecimal(promo)>>
      ELSE <<"Int64", Arrow("Int64")>>

get_fixed_len(desc, promo, use_decimal_128) ==
    CASE desc.logical # "Decimal" -> <<"FLBA", FixedSizeBinary(desc.length)>>
      [] desc.logical = "Decimal" /\ ~use_decimal_128 /\ desc.precision <= MaxIntDigits ->
           <<"FLBADecimal32", Arrow("Int32")>>
      [] OTHER -> <<IF ~use_decimal_128 /\ promo.precision <= MaxLongDigits
                      THEN "FLBADecimal64" ELSE "FLBADecimal", PromotedDecimal(promo)>>

get_float_or_bytes(desc, promo) ==
    CASE desc.physical = "INT96" -> <<"Int96TimestampMicros", Arrow("Timestamp")>>
      [] desc.physical = "FLOAT" /\ promo.physical = "FLOAT" -> <<"Float", Arrow("Float32")>>
      [] desc.physical = "FLOAT" /\ promo.physical = "DOUBLE" -> <<"FloatToDouble", Arrow("Float64")>>
      [] desc.physical = "DOUBLE" -> <<"Double", Arrow("Float64")>>
      [] desc.physical = "BYTE_ARRAY" /\ desc.logical # "none" -> <<"String", Arrow("Utf8")>>
      [] desc.physical = "BYTE_ARRAY" /\ desc.logical = "none" -> <<"ByteArray", Arrow("Binary")>>

get(desc, promo, use_decimal_128) ==
    CASE desc.physical = "BOOLEAN" -> <<"Bool", Arrow("Boolean")>>
      [] desc.physical = "INT32" /\ desc.logical = "Integer" -> get_annotated_int32(desc, promo)
      [] desc.physical = "INT32" /\ desc.logical \in {"Decimal", "Date"} ->
           get_int32_decimal_or_date(desc, promo, use_decimal_128)
      [] desc.physical = "INT32" /\ desc.logical = "none" -> get_plain_int32(promo)
      [] desc.physical = "INT64" /\ desc.logical # "none" ->
           get_annotated_int64(desc, promo, use_decimal_128)
      [] desc.physical = "INT64" /\ desc.logical = "none" -> get_plain_int64(promo)
      [] desc.physical = "FLBA" -> get_fixed_len(desc, promo, use_decimal_128)
      [] OTHER -> get_float_or_bytes(desc, promo)

\* fix_type_length: only FIXED_LEN_BYTE_ARRAY carries its length.
fix_type_length(physical, length) ==
    CASE physical \in {"INT32", "FLOAT"}  -> 4
      [] physical \in {"INT64", "DOUBLE"} -> 8
      [] physical = "INT96"               -> 12
      [] OTHER                            -> length

convert_column_descriptor(desc) == [desc EXCEPT !.length = fix_type_length(desc.physical, @)]

TypedColumnReader(T, desc, arrow_type, capacity, legacy) ==
    [T |-> T, desc |-> desc, arrow_type |-> arrow_type, legacy |-> legacy,
     def_level_decoder |-> <<>>, value_decoder |-> <<>>, num_values_in_page |-> 0,
     vector |-> new(capacity, arrow_type), capacity |-> capacity, is_const |-> FALSE,
     panic |-> FALSE]

initColumnReader(desc, promo, capacity, use_decimal_128, legacy) ==
    LET fixed == convert_column_descriptor(desc)
        typed == get(fixed, promo, use_decimal_128)
    IN  TypedColumnReader(typed[1], fixed, typed[2], capacity, legacy)

----------------------------------------------------------------------------
(* DictDecoder: dictionary indices, written as u32 at the end of a vector.  *)

DictDecoder(runs) ==
    [kind |-> "dict", runs |-> runs, rle_left |-> 0, bit_packed_left |-> 0,
     current_value |-> 0, packed |-> <<>>, panic |-> FALSE]

reload(d) ==
    LET run == Head(d.runs)
    IN  IF run.rle
          THEN [d EXCEPT !.runs = Tail(@), !.rle_left = run.count, !.current_value = run.values[1]]
          ELSE [d EXCEPT !.runs = Tail(@), !.bit_packed_left = run.count, !.packed = run.values]

PutIndex(v, i, index) ==
    [v EXCEPT !.value_buffer = Write(@, (v.num_values + i) * 4, Bytes(4, index))]

RECURSIVE dict_read_batch(_, _, _, _)
dict_read_batch(d, v, done, num) ==
    CASE done = num -> [dec |-> d, vec |-> v]
      [] done < num /\ d.rle_left > 0 ->
           LET n == Smaller(num - done, d.rle_left)
           IN  dict_read_batch([d EXCEPT !.rle_left = @ - n],
                   FoldLeft(LAMBDA w, i : PutIndex(w, i, d.current_value), v,
                            [i \in 1..n |-> done + i - 1]), done + n, num)
      [] done < num /\ d.rle_left = 0 /\ d.bit_packed_left > 0 ->
           LET n == Smaller(num - done, d.bit_packed_left)
           IN  dict_read_batch([d EXCEPT !.bit_packed_left = @ - n, !.packed = SubSeq(@, n + 1, Len(@))],
                   FoldLeft(LAMBDA w, i : PutIndex(w, done + i - 1, d.packed[i]), v,
                            [i \in 1..n |-> i]), done + n, num)
      [] done < num /\ d.rle_left = 0 /\ d.bit_packed_left = 0 ->
           dict_read_batch(reload(d), v, done, num)

\* Leaves the packed indices of the skipped rows in the bit reader.
RECURSIVE dict_skip_keeps_bits(_, _)
dict_skip_keeps_bits(d, num) ==
    CASE num = 0 -> d
      [] num > 0 /\ d.rle_left > 0 ->
           LET n == Smaller(num, d.rle_left)
           IN  dict_skip_keeps_bits([d EXCEPT !.rle_left = @ - n], num - n)
      [] num > 0 /\ d.rle_left = 0 /\ d.bit_packed_left > 0 ->
           LET n == Smaller(num, d.bit_packed_left)
           IN  dict_skip_keeps_bits([d EXCEPT !.bit_packed_left = @ - n], num - n)
      [] num > 0 /\ d.rle_left = 0 /\ d.bit_packed_left = 0 -> dict_skip_keeps_bits(reload(d), num)

RECURSIVE dict_skip_batch(_, _)
dict_skip_batch(d, num) ==
    CASE num = 0 -> d
      [] num > 0 /\ d.rle_left > 0 ->
           LET n == Smaller(num, d.rle_left)
           IN  dict_skip_batch([d EXCEPT !.rle_left = @ - n], num - n)
      [] num > 0 /\ d.rle_left = 0 /\ d.bit_packed_left > 0 ->
           LET n == Smaller(num, d.bit_packed_left)
           IN  dict_skip_batch([d EXCEPT !.bit_packed_left = @ - n,
                                         !.packed = SubSeq(@, n + 1, Len(@))], num - n)
      [] num > 0 /\ d.rle_left = 0 /\ d.bit_packed_left = 0 -> dict_skip_batch(reload(d), num)

get_decoder(data, encoding) ==
    IF encoding = "RLE_DICTIONARY" THEN DictDecoder(data) ELSE PlainDecoder(data)

PlainRead(r) == [dec |-> r.src, vec |-> r.dst]

\* Decoder::read_batch and skip_batch of the page's value decoder.
ValuesRead(c, dec, vec, num) ==
    IF dec.kind = "dict" THEN dict_read_batch(dec, vec, 0, num)
    ELSE PlainRead(decode(c.T, c.desc, c.legacy, dec, vec, num))

ValuesSkipped(c, dec, num) ==
    IF dec.kind = "dict" THEN dict_skip_batch(dec, num) ELSE skip(c.T, c.desc, dec, num)

----------------------------------------------------------------------------
(* LevelDecoder: definition levels in hybrid runs; a value is present       *)
(* exactly where the level is the column's maximum.                         *)

\* A required column has no level data: one run of zeros.
set_data(desc, count, runs) ==
    [runs |-> IF desc.max_def = 0 THEN <<>> ELSE runs, rle |-> TRUE, current_value |-> 0,
     current_count |-> IF desc.max_def = 0 THEN count ELSE 0, current_buffer |-> <<>>,
     current_buffer_idx |-> 0]

read_next_group(dl) ==
    LET run == Head(dl.runs)
    IN  IF run.rle
          THEN [dl EXCEPT !.runs = Tail(@), !.rle = TRUE, !.current_count = run.count,
                          !.current_value = run.values[1]]
          ELSE [dl EXCEPT !.runs = Tail(@), !.rle = FALSE, !.current_count = run.count,
                          !.current_buffer = run.values, !.current_buffer_idx = 0]

WithValues(st, r, n) ==
    [st EXCEPT !.dec = r.dec, !.vec = [r.vec EXCEPT !.num_values = @ + n]]

\* n rows of one level; st is [dl, dec, vec].
ReadLevel(c, st, level, n) ==
    IF level = c.desc.max_def
      THEN WithValues(st, ValuesRead(c, st.dec, set_valid(st.vec, n), n), n)
      ELSE [st EXCEPT !.vec = put_nulls(@, n)]

\* n levels of the current run: at once when repeated, else one by one.
ReadRun(c, st, n) ==
    FoldLeft(LAMBDA s, part : ReadLevel(c, s, part[1], part[2]), st,
             IF st.dl.rle THEN <<<<st.dl.current_value, n>>>>
             ELSE [i \in 1..n |-> <<st.dl.current_buffer[st.dl.current_buffer_idx + i], 1>>])

Consumed(dl, n) ==
    [dl EXCEPT !.current_count = @ - n,
               !.current_buffer_idx = IF dl.rle THEN @ ELSE @ + n]

RECURSIVE level_read_batch(_, _, _)
level_read_batch(c, st, left) ==
    IF left = 0 THEN st
    ELSE IF st.dl.current_count = 0
      THEN level_read_batch(c, [st EXCEPT !.dl = read_next_group(@)], left)
      ELSE LET n == Smaller(left, st.dl.current_count)
           IN  level_read_batch(c, [ReadRun(c, st, n) EXCEPT !.dl = Consumed(@, n)], left - n)

RECURSIVE level_skip_batch(_, _, _, _)
level_skip_batch(c, st, left, nulls) ==
    IF left = 0 THEN st
    ELSE IF st.dl.current_count = 0
      THEN level_skip_batch(c, [st EXCEPT !.dl = read_next_group(@)], left, nulls)
      ELSE LET n       == Smaller(left, st.dl.current_count)
               present == IF st.dl.rle
                            THEN IF st.dl.current_value = c.desc.max_def THEN n ELSE 0
                            ELSE Len(SelectSeq(
                                     Slice(st.dl.current_buffer, st.dl.current_buffer_idx, n),
                                     LAMBDA level : level = c.desc.max_def))
           IN  level_skip_batch(c, [dl  |-> Consumed(st.dl, n),
                                    dec |-> ValuesSkipped(c, st.dec, present),
                                    vec |-> IF nulls THEN put_nulls(st.vec, n) ELSE st.vec],
                                left - n, nulls)

----------------------------------------------------------------------------
(* The operations of TypedColumnReader.                                     *)

reset_batch(c) == [c EXCEPT !.vector = reset(@)]

current_batch(c) == get_array_data(c.vector)

\* The reader after a page operation; its result is Read(before, after).
AfterPage(c, st, n) ==
    [c EXCEPT !.num_values_in_page = @ - n, !.vector = st.vec,
              !.def_level_decoder = <<st.dl>>, !.value_decoder = <<st.dec>>,
              !.panic = @ \/ st.dec.panic]

OfPage(c, vec) == [dl |-> c.def_level_decoder[1], dec |-> c.value_decoder[1], vec |-> vec]

read_batch(c, total, null_pad_size) ==
    LET n == Smaller(c.num_values_in_page, total)
    IN  AfterPage(c, level_read_batch(c, OfPage(c, put_nulls(c.vector, null_pad_size)), n), n)

skip_batch(c, total, nulls) ==
    LET n == Smaller(c.num_values_in_page, total)
    IN  AfterPage(c, level_skip_batch(c, OfPage(c, c.vector), n, nulls), n)

\* A second dictionary panics; the vector becomes one of Int32 indices.
WithDictionary(c, count, encoding, dict) ==
    [c EXCEPT !.panic = \/ @ \/ dict.src.panic \/ c.vector.dictionary # <<>>
                        \/ encoding \notin {"PLAIN", "PLAIN_DICTIONARY"},
              !.vector = set_dictionary(new(c.capacity, Arrow("Int32")),
                                        [dict.dst EXCEPT !.num_values = count])]

set_dictionary_page(c, count, data, encoding) ==
    WithDictionary(c, count, encoding,
        decode(c.T, c.desc, c.legacy, PlainDecoder(data), new(count, c.arrow_type), count))

check_dictionary(c, encoding) ==
    IF c.vector.dictionary = <<>> \/ encoding # "PLAIN" THEN c
    ELSE [c EXCEPT !.vector = decode_dict(c.T, @, new(c.capacity, c.arrow_type), bit_width(c.arrow_type))]

SetPage(c, page, encoding) ==
    [check_dictionary(c, encoding) EXCEPT
        !.num_values_in_page = page.count,
        !.def_level_decoder = <<set_data(c.desc, page.count, page.levels)>>,
        !.value_decoder = <<get_decoder(page.data, encoding)>>]

\* A V1 page calls dictionary indices PLAIN_DICTIONARY.
set_page_v1(c, page) ==
    SetPage(c, page, IF page.encoding = "PLAIN_DICTIONARY" THEN "RLE_DICTIONARY" ELSE page.encoding)

set_page_v2(c, page) == SetPage(c, page, page.encoding)

----------------------------------------------------------------------------
(* Constant and metadata columns.                                           *)

check_const(c) ==
    [c EXCEPT !.is_const = TRUE, !.panic = @ \/ c.value_decoder # <<>> \/ c.is_const]

set_null(c) == [check_const(c) EXCEPT !.vector = put_nulls(@, c.capacity)]

Repeated(c, bytes) == FlattenSeq([i \in 1..c.capacity |-> bytes])

set_boolean(c, value) ==
    [check_const(c) EXCEPT !.vector.num_values = @ + c.capacity,
        !.vector.value_buffer = IF value THEN Write(@, 0, Repeated(c, <<1>>)) ELSE @]

\* set_fixed of a value of Len(bytes) bytes.
set_fixed(c, bytes) ==
    [check_const(c) EXCEPT !.vector.num_values = @ + c.capacity,
                           !.vector.value_buffer = Write(@, 0, Repeated(c, bytes))]

set_binary(c, bytes) ==
    [check_const(c) EXCEPT !.vector.num_values = @ + c.capacity,
        !.vector.child_buffer = Write(Reserve(@, Len(bytes) * c.capacity), 0, Repeated(c, bytes)),
        !.vector.value_buffer =
            Write(@, 4, FlattenSeq([i \in 1..c.capacity |-> Bytes(4, i * Len(bytes))]))]

\* A big-endian decimal, sign-extended to the 16 bytes of a Decimal128.
set_decimal_flba(c, bytes) == set_fixed(c, Bytes(16, Signed(Reverse(bytes))))

set_position(c, value, size) ==
    [c EXCEPT !.vector.num_values = @ + size,
              !.vector.value_buffer =
                  Write(@, c.vector.num_values * 8,
                        FlattenSeq([i \in 1..size |-> Bytes(8, value + i - 1)]))]

set_is_deleted(c, flags) ==
    [c EXCEPT !.vector.num_values = @ + Len(flags),
              !.vector.value_buffer = Write(@, 0, flags)]

----------------------------------------------------------------------------
(* The JNI entry points, named as in Native.java; page buffers are copied.  *)

setDictionaryPage(c, count, data, encoding) == set_dictionary_page(c, count, data, encoding)

setPageV1(c, page) == set_page_v1(c, page)

setPageV2(c, page) == set_page_v2(c, page)

setNull(c) == set_null(c)
setBoolean(c, v) == set_boolean(c, v = 1)
setByte(c, v) == set_fixed(c, Bytes(1, v))
setShort(c, v) == set_fixed(c, Bytes(2, v))
setInt(c, v) == set_fixed(c, Bytes(4, v))
setLong(c, v) == set_fixed(c, Bytes(8, v))
setFloat(c, v) == set_fixed(c, Float(4, v))
setDouble(c, v) == set_fixed(c, Float(8, v))
setBinary(c, v) == set_binary(c, v)
setDecimal(c, v) == set_decimal_flba(c, v)
setIsDeleted(c, flags) == set_is_deleted(c, flags)

resetBatch(c) == reset_batch(c)

readBatch(c, total, null_pad_size) == read_batch(c, total, null_pad_size)

skipBatch(c, total, discard) == skip_batch(c, total, ~discard)

currentBatch(c) == current_batch(c)

\* Row indices of the next batch_size rows after the first offset ones, from
\* pairs of a start and a length.
setIndices(c, offset, batch_size, pairs) ==
    LET Step(st, pair) ==
            LET skip_ == Smaller(pair[2], offset - st.skipped)
                count == Smaller(pair[2] - skip_, batch_size - st.filled)
            IN  [skipped |-> st.skipped + skip_, filled |-> st.filled + count,
                 reader |-> IF pair[2] = skip_ \/ batch_size = st.filled THEN st.reader
                            ELSE set_position(st.reader, pair[1] + skip_, count)]
    IN  FoldLeft(Step, [skipped |-> 0, filled |-> 0, reader |-> c], pairs)
=============================================================================

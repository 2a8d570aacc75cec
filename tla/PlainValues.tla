---------------------------- MODULE PlainValues ----------------------------
(* How each Parquet type is decoded from a PLAIN page into an Arrow vector, *)
(* and how a dictionary-encoded vector is turned into a plain one           *)
(* (native/core/src/parquet/read/values.rs, read/mod.rs).  The calendar and *)
(* decimal constants are parameters, scaled with the width of a byte.       *)
EXTENDS ParquetVector

CONSTANTS SwitchDay, SwitchTs, JulianEpoch, MicrosPerMilli, MicrosPerDay, NanosPerMicro,
          Radix   \* the base of decimals, 10 in the code

\* Rust's integer division truncates towards zero.
Quot(a, b) == IF a < 0 THEN -((-a) \div b) ELSE a \div b

----------------------------------------------------------------------------
(* One value: the bytes stored, whether the decoder panics on it, and       *)
(* whether it is nulled because it does not fit the decimal read.           *)

Stored(b) == [bytes |-> b, panic |-> FALSE, null |-> FALSE]

Checked(b, bad) == [bytes |-> b, panic |-> bad, null |-> FALSE]

Int32DateType(legacy, b) == Checked(b, ~legacy /\ Signed(b) < SwitchDay)

Int32TimestampMicrosType(b) ==
    Checked(Bytes(2 * Len(b), Signed(b) * MicrosPerDay), Signed(b) < SwitchDay)

Int64TimestampMillisType(legacy, b) ==
    LET v == Signed(b) * MicrosPerMilli
    IN  Checked(Bytes(Len(b), v), ~legacy /\ v < SwitchTs)

Int64TimestampMicrosType(legacy, b) == Checked(b, ~legacy /\ Signed(b) < SwitchTs)

int96_to_microsecond(b) ==
    (Signed(Slice(b, 8, 4)) - JulianEpoch) * MicrosPerDay + Quot(Signed(Slice(b, 0, 8)), NanosPerMicro)

Int96TimestampMicrosType(legacy, b) ==
    LET micros == int96_to_microsecond(b)
    IN  Checked(Bytes(8, micros), ~legacy /\ micros < SwitchTs)

\* The second half of an unsigned 32-bit value is zeroed.
generate_cast_to_unsigned(b) == b \o Zeros(Len(b))

generate_cast_to_signed(n, b) == Bytes(n, Signed(b))

\* copy_fn and type_width of each instance of make_int_variant_impl!.
make_int_variant_impl(T, b) ==
    CASE T = "Int8"                              -> generate_cast_to_signed(1, b)
      [] T \in {"Int16", "UInt8"}                -> generate_cast_to_signed(2, b)
      [] T = "UInt16"                            -> generate_cast_to_signed(4, b)
      [] T = "Int32To64"                         -> generate_cast_to_signed(8, b)
      [] T = "UInt32"                            -> generate_cast_to_unsigned(b)
      [] T \in {"Int32ToDouble", "Int16ToDouble"} -> Float(8, Signed(b))
      [] T = "FloatToDouble"                     -> Float(8, FloatValue(b))

write_null(val, upper) == upper <= val

\* Rescales from the column's decimal type to the one read.
make_int_decimal_variant_impl(n, desc, arrow, v) ==
    LET upper    == Radix^arrow.p
        adjusted == CASE arrow.s > desc.scale -> v * Radix^(arrow.s - desc.scale)
                      [] arrow.s < desc.scale -> Quot(v, Radix^(desc.scale - arrow.s))
                      [] OTHER                -> v
    IN  [bytes |-> Bytes(n, adjusted), panic |-> FALSE,
         null  |-> /\ arrow.s # desc.scale \/ desc.precision > arrow.p
                   /\ write_null(adjusted, upper)]

\* A big-endian decimal of type_length bytes, sign-extended to n bytes.
make_plain_decimal_int_impl(n, desc, arrow, b) ==
    LET target   == IF arrow.name = "Decimal128" THEN arrow ELSE Decimal128(desc.precision, desc.scale)
        unscaled == Signed(Reverse(b))
        adjusted == IF target.s > desc.scale
                      THEN unscaled * Radix^(target.s - desc.scale)
                      ELSE Quot(unscaled, Radix^(desc.scale - target.s))
    IN  [bytes |-> Bytes(n, adjusted), panic |-> FALSE,
         null  |-> desc.precision > target.p /\ write_null(adjusted, Radix^target.p)]

----------------------------------------------------------------------------
(* Bytes of one value in the page and in the vector.                        *)

Defaults == {"Int32", "Int64", "Float", "Double", "FLBA"}
IntVariants == {"Int8", "Int16", "UInt8", "UInt16", "UInt32", "Int32To64",
                "Int32ToDouble", "Int16ToDouble", "FloatToDouble"}
IntDecimals == {"Int32ToDecimal64", "Int32Decimal", "Int64ToDecimal64", "Int64Decimal", "UInt64"}
FLBADecimals == {"FLBADecimal32", "FLBADecimal64", "FLBADecimal"}
Binaries == {"ByteArray", "String"}

SourceWidth(T, desc) ==
    CASE T = "Bool"                                          -> 1
      [] T \in IntVariants \union {"Int32ToDecimal64", "Int32Decimal"} -> 4
      [] T \in {"Int64ToDecimal64", "Int64Decimal", "UInt64"} -> 8
      [] T = "Int96TimestampMicros"                          -> 12
      [] OTHER                                               -> desc.length

\* Size of the type a decimal is held in.
DecimalWidth(T) ==
    CASE T = "FLBADecimal32"                                           -> 4
      [] T \in {"Int32ToDecimal64", "Int64ToDecimal64", "FLBADecimal64"} -> 8
      [] T \in {"Int32Decimal", "Int64Decimal", "UInt64", "FLBADecimal"} -> 16

DecodeOne(T, desc, legacy, arrow, b) ==
    CASE T \in Defaults \union {"Bool"}   -> Stored(b)
      [] T \in IntVariants                -> Stored(make_int_variant_impl(T, b))
      [] T \in IntDecimals ->
           make_int_decimal_variant_impl(DecimalWidth(T), desc, arrow,
                                         IF T = "UInt64" THEN Unsigned(b) ELSE Signed(b))
      [] T \in FLBADecimals -> make_plain_decimal_int_impl(DecimalWidth(T), desc, arrow, b)
      [] T = "Int32Date"            -> Int32DateType(legacy, b)
      [] T = "Int32TimestampMicros" -> Int32TimestampMicrosType(b)
      [] T = "Int64TimestampMillis" -> Int64TimestampMillisType(legacy, b)
      [] T = "Int64TimestampMicros" -> Int64TimestampMicrosType(legacy, b)
      [] T = "Int96TimestampMicros" -> Int96TimestampMicrosType(legacy, b)

----------------------------------------------------------------------------
(* A plain decoder is the page's bytes and an offset into them.  Values go  *)
(* to the end of the vector; the caller advances num_values.                *)

PlainDecoder(data) == [kind |-> "plain", data |-> data, offset |-> 0, panic |-> FALSE]

\* A fixed-width value at position num_values + i of dst.
PutFixed(dst, i, one) ==
    LET at == (dst.num_values + i) * Len(one.bytes)
    IN  [dst EXCEPT !.value_buffer = Write(@, at, one.bytes),
                    !.validity_buffer = IF one.null THEN Write(@, dst.num_values + i, <<0>>) ELSE @,
                    !.num_nulls = IF one.null THEN @ + 1 ELSE @]

\* Booleans are or-ed into the zeroed value buffer.
PutBool(dst, i, one) ==
    IF one.bytes = <<0>> THEN dst
    ELSE [dst EXCEPT !.value_buffer = Write(@, dst.num_values + i, <<1>>)]

\* A length-prefixed value goes to the child buffer, its end to the offsets.
make_plain_binary_impl(src, dst, i) ==
    LET len   == Unsigned(Slice(src.data, src.offset, 4))
        bytes == Slice(src.data, src.offset + 4, len)
        slot  == (dst.num_values + i) * 4
        start == Unsigned(Slice(dst.value_buffer, slot, 4))
    IN  [src |-> [src EXCEPT !.offset = @ + 4 + len],
         dst |-> [dst EXCEPT !.value_buffer = Write(@, slot + 4, Bytes(4, start + len)),
                             !.child_buffer = Write(Reserve(@, dst.child_values + len),
                                                    dst.child_values, bytes),
                             !.child_values = @ + len]]

PutOne(T, st, i, width, one) ==
    [src |-> [st.src EXCEPT !.offset = @ + width, !.panic = @ \/ one.panic],
     dst |-> IF T = "Bool" THEN PutBool(st.dst, i, one) ELSE PutFixed(st.dst, i, one)]

decode_one(T, desc, legacy, st, i) ==
    IF T \in Binaries THEN make_plain_binary_impl(st.src, st.dst, i)
    ELSE PutOne(T, st, i, SourceWidth(T, desc),
                DecodeOne(T, desc, legacy, st.dst.arrow_type,
                          Slice(st.src.data, st.src.offset, SourceWidth(T, desc))))

decode(T, desc, legacy, src, dst, num) ==
    FoldLeft(LAMBDA st, i : decode_one(T, desc, legacy, st, i),
             [src |-> src, dst |-> dst], [i \in 1..num |-> i - 1])

skip(T, desc, src, num) ==
    IF T \in Binaries
      THEN FoldLeft(LAMBDA s, i : [s EXCEPT !.offset = @ + 4 + Unsigned(Slice(s.data, s.offset, 4))],
                    src, [i \in 1..num |-> i])
      ELSE [src EXCEPT !.offset = @ + SourceWidth(T, desc) * num]

----------------------------------------------------------------------------
(* Value val_idx of a dictionary copied to position idx of a plain vector.  *)

make_plain_dict_impl(idx, val_idx, src, dst, width) ==
    [dst EXCEPT !.value_buffer = Write(@, idx * width, Slice(src.value_buffer, val_idx * width, width))]

PutAt(dst, idx, bytes) ==
    [dst EXCEPT !.value_buffer = Write(@, idx * Len(bytes), bytes)]

DictVariant(T, b) ==
    CASE T \in {"Int16ToDouble", "Int32ToDouble"}            -> Float(8, Signed(b))
      [] T = "FloatToDouble"                                 -> Float(8, FloatValue(b))
      [] T \in {"Int32Decimal", "Int64Decimal", "UInt64"}    -> b
      [] OTHER                                               -> Bytes(8, Signed(b))

\* Reads the dictionary as src_ty, although it holds decoded values.
make_int_variant_dict_impl(T, idx, val_idx, src, dst) ==
    LET n == CASE T = "Int16ToDouble" -> 2
               [] T \in {"Int32Decimal", "Int64Decimal", "UInt64"} -> 16
               [] OTHER -> 4
    IN  PutAt(dst, idx, DictVariant(T, Slice(src.value_buffer, val_idx * n, n)))

BoolDict(idx, val_idx, src, dst) ==
    IF src.value_buffer[val_idx + 1] = 0 THEN dst
    ELSE [dst EXCEPT !.value_buffer = Write(@, idx, <<1>>)]

make_plain_dict_binary_impl(idx, val_idx, src, dst) ==
    LET start == Unsigned(Slice(src.value_buffer, val_idx * 4, 4))
        end   == Unsigned(Slice(src.value_buffer, (val_idx + 1) * 4, 4))
        curr  == Unsigned(Slice(dst.value_buffer, idx * 4, 4))
    IN  [dst EXCEPT !.child_buffer = Write(Reserve(@, curr + end - start), curr,
                                           Slice(src.child_buffer, start, end - start)),
                    !.value_buffer = Write(@, (idx + 1) * 4, Bytes(4, curr + end - start)),
                    !.child_values = @ + (end - start)]

decode_dict_one(T, idx, val_idx, src, dst, width) ==
    CASE T = "Bool"       -> BoolDict(idx, val_idx, src, dst)
      [] T \in Binaries   -> make_plain_dict_binary_impl(idx, val_idx, src, dst)
      [] T \in FLBADecimals ->
           make_plain_dict_impl(dst.num_values, val_idx, src, dst, DecimalWidth(T))
      [] T = "Int96TimestampMicros" ->
           make_plain_dict_impl(dst.num_values, val_idx, src, dst, 8)
      [] T \in {"Int16ToDouble", "Int32To64", "Int32ToDecimal64", "Int32ToDouble",
                "Int32TimestampMicros", "FloatToDouble", "Int32Decimal", "Int64Decimal", "UInt64"} ->
           make_int_variant_dict_impl(T, idx, val_idx, src, dst)
      [] OTHER -> make_plain_dict_impl(idx, val_idx, src, dst, width)

\* Appends the values of src, which holds dictionary indices, to dst.
decode_dict(T, src, dst, width) ==
    [FoldLeft(LAMBDA v, i :
                  IF src.validity_buffer[i + 1] = 1
                    THEN [decode_dict_one(T, i, Unsigned(Slice(src.value_buffer, i * 4, 4)),
                                          src.dictionary[1], v, width)
                             EXCEPT !.num_values = @ + 1]
                    ELSE put_nulls(v, 1),
              dst, [i \in 1..src.num_values |-> i - 1])
        EXCEPT !.validity_buffer = src.validity_buffer]
=============================================================================

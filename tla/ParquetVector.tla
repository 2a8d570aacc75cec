--------------------------- MODULE ParquetVector ---------------------------
(* The growable Arrow vector the native Parquet reader fills                *)
(* (native/core/src/parquet/mutable_vector.rs).  A buffer is a sequence of  *)
(* bytes; a byte holds Base values instead of 256, so that an i128 of 16    *)
(* bytes still fits TLC's integers.  With Base = 2 a byte is one bit wide,  *)
(* and the bit-packed validity and Boolean buffers need no other layout.    *)
EXTENDS Integers, Sequences, SequencesExt

CONSTANT Base

ASSUME BaseAssumption == Base \in Nat /\ Base > 1

----------------------------------------------------------------------------
(* Little-endian integers.                                                  *)

\* The n-byte two's complement form of v.
Bytes(n, v) == [i \in 1..n |-> ((v % Base^n) \div Base^(i - 1)) % Base]

Unsigned(b) == FoldRight(LAMBDA x, acc : x + Base * acc, b, 0)

\* u as a signed number of n bytes.
TwosComplement(u, n) == IF 2 * u >= Base^n THEN u - Base^n ELSE u

Signed(b) == TwosComplement(Unsigned(b), Len(b))

\* A float of n bytes: some injective form that is not the integer's.
Float(n, v) == Reverse(Bytes(n, v))

FloatValue(b) == Signed(Reverse(b))

Slice(buf, from, n) == SubSeq(buf, from + 1, from + n)

\* bit::memcpy of bytes into buf[at..].
Write(buf, at, bytes) ==
    [i \in 1..Len(buf) |->
        IF at < i /\ i <= at + Len(bytes) THEN bytes[i - at] ELSE buf[i]]

Zeros(n) == [i \in 1..n |-> 0]

\* CometBuffer::resize to at least need bytes, at least doubling.
Reserve(buf, need) ==
    IF Len(buf) >= need THEN buf
    ELSE buf \o Zeros((IF need > 2 * Len(buf) THEN need ELSE 2 * Len(buf)) - Len(buf))

----------------------------------------------------------------------------
(* An Arrow type is a name and two parameters: precision and scale of a     *)
(* decimal, length of a fixed-size binary.                                  *)

Arrow(name) == [name |-> name, p |-> 0, s |-> 0]

Decimal128(p, s) == [name |-> "Decimal128", p |-> p, s |-> s]

FixedSizeBinary(n) == [name |-> "FixedSizeBinary", p |-> n, s |-> 0]

\* Bytes of one element; a Boolean takes one bit, here one byte.
bit_width(type) ==
    CASE type.name \in {"Boolean", "Int8"}                 -> 1
      [] type.name = "Int16"                               -> 2
      [] type.name \in {"Int32", "Float32", "Date32"}      -> 4
      [] type.name \in {"Int64", "Float64", "Timestamp"}   -> 8
      [] type.name = "FixedSizeBinary"                     -> type.p
      [] type.name = "Decimal128"                          -> 16
      [] type.name \in {"Binary", "Utf8"}                  -> 4

is_binary_type(type) == type.name \in {"Binary", "Utf8"}

should_reset_value_buffer(type) == type.name \in {"Boolean", "Decimal128"}

\* 4 in the code; 1 lets small values outgrow the child buffer.
DEFAULT_ARRAY_LEN == 1

\* child_values and child_buffer are children[0] of a binary vector;
\* dictionary is <<>> for None and <<vector>> for Some.
new(capacity, type) ==
    [arrow_type      |-> type,
     num_values      |-> 0,
     num_nulls       |-> 0,
     validity_buffer |-> Zeros(capacity),
     value_buffer    |-> Zeros((IF is_binary_type(type) THEN capacity + 1 ELSE capacity)
                                 * bit_width(type)),
     child_values    |-> 0,
     child_buffer    |-> Zeros(IF is_binary_type(type) THEN capacity * DEFAULT_ARRAY_LEN ELSE 0),
     dictionary      |-> <<>>]

reset(v) ==
    [v EXCEPT !.num_values = 0, !.num_nulls = 0, !.child_values = 0,
              !.validity_buffer = Zeros(Len(v.validity_buffer)),
              !.value_buffer =
                  CASE is_binary_type(v.arrow_type) ->
                         Write(v.value_buffer, 0, Zeros(4))
                    [] should_reset_value_buffer(v.arrow_type) ->
                         Zeros(Len(v.value_buffer))
                    [] OTHER -> v.value_buffer]

\* A null of a binary vector repeats the previous offset.
put_nulls(v, n) ==
    LET last == Slice(v.value_buffer, v.num_values * 4, 4)
    IN  [v EXCEPT !.num_nulls = @ + n, !.num_values = @ + n,
                  !.value_buffer =
                      IF is_binary_type(v.arrow_type)
                        THEN Write(@, v.num_values * 4 + 4, FlattenSeq([i \in 1..n |-> last]))
                        ELSE @]

set_dictionary(v, dict) == [v EXCEPT !.dictionary = <<dict>>]

\* ArrayData over the vector's buffers; a child only for a plain binary one.
get_array_data(v) ==
    LET Data(w) == [data_type |-> w.arrow_type, len |-> w.num_values, null_count |-> w.num_nulls,
                    null_bits |-> w.validity_buffer, values |-> w.value_buffer,
                    child |-> IF w.dictionary = <<>> THEN w.child_buffer ELSE <<>>]
    IN  Data(v) @@ [dictionary |-> IF v.dictionary = <<>> THEN <<>>
                                       ELSE <<Data(v.dictionary[1])>>]

is_null(v, i) == v.validity_buffer[i + 1] = 0

set_valid(v, n) ==
    [v EXCEPT !.validity_buffer = Write(@, v.num_values, [i \in 1..n |-> 1])]
=============================================================================

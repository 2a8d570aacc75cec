------------------------------ MODULE UnsafeRows ------------------------------
(***************************************************************************)
(* Spark's UnsafeRow, UnsafeArrayData and UnsafeMapData as the native      *)
(* columnar shuffle reads them: raw addresses, null words, slots that hold *)
(* a value or an offset and a length.                                      *)
(*                                                                         *)
(* Memory is a function from the address of a stored item to its width and *)
(* contents, a sequence of numbers.  A read finds an item only at the      *)
(* address and with the width it was written with; any other read returns  *)
(* Garbage, so a wrong offset or a wrong accessor shows.                   *)
(***************************************************************************)
EXTENDS Integers, Sequences, TLC

CONSTANTS WordBits,        \* null bits in a word of a bitset: 64 in the code
          I128Bytes        \* bytes of an i128: 16 in the code

MAX_LONG_DIGITS == 18

Garbage == <<-1, -1>>

Load(mem, addr, width) ==
    IF width = 0 THEN <<>>
    ELSE IF addr \in DOMAIN mem /\ mem[addr].width = width THEN mem[addr].v
    ELSE Garbage

(* Objects: a row, whose slots are 8 bytes wide whatever they hold, and an *)
(* array, whose slots have the width of the element.                       *)
get_row_bitset_width(num_fields) == ((num_fields + WordBits - 1) \div WordBits) * 8

new_with_num_fields(num_fields) ==
    [kind |-> "row", mem |-> <<>>, addr |-> -1, size |-> -1,
     width |-> get_row_bitset_width(num_fields)]

point_to(row, mem, addr, size) == [row EXCEPT !.mem = mem, !.addr = addr, !.size = size]

default == [kind |-> "row", mem |-> <<>>, addr |-> -1, size |-> -1, width |-> -1]

is_null_row(row) == row.addr = -1 /\ row.size = -1 /\ row.width = -1

get_header_portion_in_bytes(n) == 8 + ((n + WordBits - 1) \div WordBits) * 8

(* A negative count is a panic in the code; Garbage reads as one.          *)
SparkUnsafeArray(mem, addr) ==
    LET n == Load(mem, addr, 8)[1] IN
    [kind |-> "array", mem |-> mem, addr |-> addr, n |-> n, panic |-> n < 0,
     element_offset |-> addr + get_header_portion_in_bytes(n)]

SparkUnsafeMap(mem, addr, size) ==
    LET key_array_size == Load(mem, addr, 8)[1]
        keys   == SparkUnsafeArray(mem, addr + 8)
        values == SparkUnsafeArray(mem, addr + 8 + key_array_size)
    IN  [keys |-> keys, values |-> values,
         panic |-> \/ key_array_size < 0
                   \/ size - key_array_size - 8 < 0
                   \/ keys.panic \/ values.panic \/ keys.n # values.n]

get_element_offset(o, index, element_size) ==
    IF o.kind = "row" THEN o.addr + o.width + index * 8
                      ELSE o.element_offset + index * element_size

NullBitSet(word, index) == (word \div (2 ^ (index % WordBits))) % 2 = 1

is_null_at_row(o, index) ==
    NullBitSet(Load(o.mem, o.addr + (index \div WordBits) * 8, 8)[1], index)

is_null_at_array(o, index) ==
    NullBitSet(Load(o.mem, o.addr + 8 + (index \div WordBits) * 8, 8)[1], index)

(* The accessors                                                           *)
Fixed(o, index, width) == Load(o.mem, get_element_offset(o, index, width), width)

get_boolean(o, index) == <<IF Fixed(o, index, 1)[1] # 0 THEN 1 ELSE 0>>
get_byte(o, index) == Fixed(o, index, 1)
get_short(o, index) == Fixed(o, index, 2)
get_int(o, index) == Fixed(o, index, 4)
get_long(o, index) == Fixed(o, index, 8)
get_float(o, index) == Fixed(o, index, 4)
get_double(o, index) == Fixed(o, index, 8)
get_date(o, index) == Fixed(o, index, 4)
get_timestamp(o, index) == Fixed(o, index, 8)

(* The long of a variable-length slot: offset in its upper half, length in *)
(* its lower one                                                           *)
get_offset_and_len(o, index) ==
    [offset |-> get_long(o, index)[1], len |-> get_long(o, index)[2]]

get_binary(o, index) ==
    LET ol == get_offset_and_len(o, index) IN Load(o.mem, o.addr + ol.offset, ol.len)

get_string(o, index) == get_binary(o, index)

get_struct(o, index, num_fields) ==
    LET ol == get_offset_and_len(o, index) IN
    point_to(new_with_num_fields(num_fields), o.mem, o.addr + ol.offset, ol.len)

get_array(o, index) == SparkUnsafeArray(o.mem, o.addr + get_offset_and_len(o, index).offset)

get_map(o, index) ==
    LET ol == get_offset_and_len(o, index) IN
    SparkUnsafeMap(o.mem, o.addr + ol.offset, ol.len)

ZeroExtended(slice) ==
    LET n == Len(slice)
        Sum[i \in 0..n] == IF i = 0 THEN 0 ELSE Sum[i - 1] + slice[n + 1 - i] * 256 ^ (i - 1)
    IN  Sum[n]

(* Two's complement, most significant byte first, widened to an i128       *)
bytes_to_i128(slice) ==
    LET n     == Len(slice)
        bytes == [i \in 1..I128Bytes |->
                     IF i <= n THEN slice[n + 1 - i]
                     ELSE IF slice[1] >= 128 THEN 255 ELSE 0]
        Sum[i \in 0..I128Bytes] ==
            IF i = 0 THEN 0 ELSE Sum[i - 1] + bytes[i] * 256 ^ (i - 1)
    IN  Sum[I128Bytes] - (IF bytes[I128Bytes] >= 128 THEN 256 ^ I128Bytes ELSE 0)

get_decimal(o, index, precision) ==
    IF precision <= MAX_LONG_DIGITS THEN get_long(o, index)
    ELSE <<bytes_to_i128(get_binary(o, index))>>

(* An accessor by its name, as the arms of the builders name it            *)
Get(accessor, o, index, precision) ==
    CASE accessor = "get_boolean"   -> get_boolean(o, index)
      [] accessor = "get_byte"      -> get_byte(o, index)
      [] accessor = "get_short"     -> get_short(o, index)
      [] accessor = "get_int"       -> get_int(o, index)
      [] accessor = "get_long"      -> get_long(o, index)
      [] accessor = "get_float"     -> get_float(o, index)
      [] accessor = "get_double"    -> get_double(o, index)
      [] accessor = "get_date"      -> get_date(o, index)
      [] accessor = "get_timestamp" -> get_timestamp(o, index)
      [] accessor = "get_binary"    -> get_binary(o, index)
      [] accessor = "get_string"    -> get_string(o, index)
      [] accessor = "get_decimal"   -> get_decimal(o, index, precision)
=============================================================================

----------------------------- MODULE SparkEncoding -----------------------------
(***************************************************************************)
(* Spark's side of the unsafe format (external): how UnsafeRowWriter and   *)
(* UnsafeArrayWriter lay out a value, as the native reader expects it.     *)
(*                                                                         *)
(* A value is <<>> (null) or <<x>>: x a sequence of numbers for a scalar,  *)
(* of values for a struct or a list, a pair of such lists for a map.  An   *)
(* object is its stored items by address relative to its start, and its    *)
(* size.                                                                   *)
(***************************************************************************)
EXTENDS UnsafeRows, SequencesExt

RoundUp8(n) == ((n + 7) \div 8) * 8

Stored(addr, width, v) == addr :> [width |-> width, v |-> v]

Moved(items, by) == [a \in {x + by : x \in DOMAIN items} |-> items[a - by]]

ByteWidth(dt) ==
    CASE dt.t \in {"Boolean", "Int8"} -> 1
      [] dt.t = "Int16" -> 2
      [] dt.t \in {"Int32", "Float32", "Date32"} -> 4
      [] OTHER -> 8

InSlot(dt) ==
    \/ dt.t \in {"Boolean", "Int8", "Int16", "Int32", "Int64", "Float32", "Float64",
                 "Date32", "Timestamp"}
    \/ dt.t = "Decimal128" /\ dt.p <= MAX_LONG_DIGITS

(* BigInteger.toByteArray: the shortest two's complement, big-endian       *)
ToByteArray(v) ==
    LET n == CHOOSE k \in 1..I128Bytes :
                 /\ -(256 ^ k) \div 2 <= v /\ v < (256 ^ k) \div 2
                 /\ \A j \in 1..(k - 1) : ~(-(256 ^ j) \div 2 <= v /\ v < (256 ^ j) \div 2)
        u == IF v < 0 THEN v + 256 ^ n ELSE v
    IN  [i \in 1..n |-> (u \div (256 ^ (n - i))) % 256]

Words(vals) == (Len(vals) + WordBits - 1) \div WordBits

(* The null words of a row or an array, from address first on              *)
NullWords(vals, first) ==
    LET Bit(w, b) == LET i == (w - 1) * WordBits + b
                     IN  IF i <= Len(vals) THEN IF vals[i] = <<>> THEN 2 ^ (b - 1) ELSE 0
                         ELSE 0
        Word(w) == FoldLeft(LAMBDA s, b : s + Bit(w, b), 0, [b \in 1..WordBits |-> b])
    IN  [a \in {first + (w - 1) * 8 : w \in 1..Words(vals)} |->
            [width |-> 8, v |-> <<Word((a - first) \div 8 + 1)>>]]

RECURSIVE Object(_, _)

(* Slots of the given width from address first on, with the objects of     *)
(* variable length behind them                                             *)
Slots(dts, vals, first, width, items, end) ==
    FoldLeft(LAMBDA acc, i :
        LET addr == first + (i - 1) * width IN
        IF vals[i] = <<>> THEN acc
        ELSE IF InSlot(dts[i])
        THEN [acc EXCEPT !.items = @ @@ Stored(addr, ByteWidth(dts[i]), vals[i][1])]
        ELSE LET o == Object(dts[i], vals[i][1]) IN
             [items |-> acc.items @@ Stored(addr, 8, <<acc.size, o.size>>)
                                  @@ Moved(o.items, acc.size),
              size |-> acc.size + RoundUp8(o.size)],
        [items |-> items, size |-> end], [i \in DOMAIN vals |-> i])

RowObject(dts, vals) ==
    Slots(dts, vals, Words(vals) * 8, 8, NullWords(vals, 0),
          Words(vals) * 8 + Len(vals) * 8)

ArrayObject(dt, vals) ==
    LET header == 8 + Words(vals) * 8 IN
    Slots([i \in DOMAIN vals |-> dt], vals, header, ByteWidth(dt),
          Stored(0, 8, <<Len(vals)>>) @@ NullWords(vals, 8),
          header + RoundUp8(Len(vals) * ByteWidth(dt)))

Object(dt, x) ==
    CASE dt.t \in {"Utf8", "Binary"} ->
            [items |-> IF x = <<>> THEN <<>> ELSE Stored(0, Len(x), x), size |-> Len(x)]
      [] dt.t = "Decimal128" ->
            [items |-> Stored(0, Len(ToByteArray(x[1])), ToByteArray(x[1])),
             size |-> Len(ToByteArray(x[1]))]
      [] dt.t = "Struct" -> RowObject(dt.fields, x)
      [] dt.t = "List" -> ArrayObject(dt.elem, x)
      [] dt.t = "Map" ->
            LET keys   == ArrayObject(dt.key, x[1])
                values == ArrayObject(dt.value, x[2])
            IN  [items |-> Stored(0, 8, <<keys.size>>) @@ Moved(keys.items, 8)
                             @@ Moved(values.items, 8 + keys.size),
                 size |-> 8 + keys.size + values.size]

(* A row of the partition, at its address                                  *)
EncodedRow(schema, vals, addr) ==
    LET o == RowObject(schema, vals)
    IN  [mem |-> Moved(o.items, addr), addr |-> addr, size |-> o.size]
=============================================================================

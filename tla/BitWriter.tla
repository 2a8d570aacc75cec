------------------------------ MODULE BitWriter ------------------------------
(***************************************************************************)
(* The bit writer of common/bit.rs, the counterpart of BitReader.  Data is *)
(* symbolic: the bit that belongs at stream position p is the number p, so *)
(* that a bit of the buffer is the set of the positions or-ed into it.     *)
(***************************************************************************)
EXTENDS Integers, Sequences, FiniteSets

CONSTANTS
    MaxBytes,      \* length of the buffer
    ValueWidths,   \* widths given to put_value
    VlqInts        \* integers given to the VLQ encoders

ASSUME BitWriterAssumption ==
    /\ MaxBytes \in Nat \ {0} /\ ValueWidths \subseteq 1..64 /\ VlqInts \subseteq Nat

VARIABLES
    wr,       \* [buffer, buffered_values, byte_offset, bit_offset]
    written,  \* positions handed to the writer
    vlq       \* the last VLQ value with its encoding

writerVars == <<wr, written, vlq>>

WriterBits == 64
At(w) == w.byte_offset * 8 + w.bit_offset   \* stream position of the next bit

new_writer ==
    [buffer |-> [b \in 0..(MaxBytes * 8 - 1) |-> {}],
     buffered_values |-> [b \in 0..(WriterBits - 1) |-> {}],
     byte_offset |-> 0, bit_offset |-> 0]

(* memcpy_value of the first bytes of a word to a byte of the buffer *)
Copy(buffer, word, num_bytes, byte) ==
    [b \in DOMAIN buffer |-> IF b \in (byte * 8)..((byte + num_bytes) * 8 - 1)
                             THEN word[b - byte * 8] ELSE buffer[b]]

(* num_bits consecutive positions from p on, as a word *)
Value(p, num_bits) ==
    [b \in 0..(WriterBits - 1) |-> IF b < num_bits THEN {p + b} ELSE {}]

Zero == [b \in 0..(WriterBits - 1) |-> {}]
Shl(word, n) == [b \in DOMAIN word |-> IF b >= n THEN word[b - n] ELSE {}]
Shr(word, n) == [b \in DOMAIN word |-> IF b + n < WriterBits THEN word[b + n] ELSE {}]
Or(x, y) == [b \in DOMAIN x |-> x[b] \union y[b]]

flush(w) ==
    LET num_bytes == (w.bit_offset + 7) \div 8
    IN  [buffer |-> Copy(w.buffer, w.buffered_values, num_bytes, w.byte_offset),
         buffered_values |-> Zero,
         byte_offset |-> w.byte_offset + num_bytes, bit_offset |-> 0]

(* Mutant: the bits that do not fit in the word are dropped. *)
PutValueDropsRest(w, v, num_bits) ==
    LET word == Or(w.buffered_values, Shl(v, w.bit_offset))
        bits == w.bit_offset + num_bits
    IN  IF At(w) + num_bits > MaxBytes * 8 THEN w
        ELSE IF bits < WriterBits
        THEN [w EXCEPT !.buffered_values = word, !.bit_offset = bits]
        ELSE [buffer |-> Copy(w.buffer, word, 8, w.byte_offset),
              buffered_values |-> Zero,
              byte_offset |-> w.byte_offset + 8,
              bit_offset |-> bits - WriterBits]

(* A full word goes to the buffer, and the bits of v that did not fit      *)
(* start the next one                                                      *)
put_value(w, v, num_bits) ==
    LET word == Or(w.buffered_values, Shl(v, w.bit_offset))
        bits == w.bit_offset + num_bits
    IN  IF At(w) + num_bits > MaxBytes * 8 THEN w
        ELSE IF bits < WriterBits
        THEN [w EXCEPT !.buffered_values = word, !.bit_offset = bits]
        ELSE [buffer |-> Copy(w.buffer, word, 8, w.byte_offset),
              buffered_values |-> Shr(v, num_bits - (bits - WriterBits)),
              byte_offset |-> w.byte_offset + 8,
              bit_offset |-> bits - WriterBits]

(* skip flushes before it checks the room *)
skip(w, num_bytes) ==
    LET f == flush(w)
    IN  IF f.byte_offset + num_bytes > MaxBytes THEN f
        ELSE [f EXCEPT !.byte_offset = @ + num_bytes]

put_aligned(w, num_bytes) ==
    LET f == flush(w)
        s == skip(w, num_bytes)
    IN  IF s = f THEN f
        ELSE [s EXCEPT !.buffer =
                Copy(f.buffer, Value(f.byte_offset * 8, num_bytes * 8),
                     num_bytes, f.byte_offset)]

put_aligned_offset(w, num_bytes, offset) ==
    IF num_bytes + offset > MaxBytes THEN w
    ELSE [w EXCEPT !.buffer =
            Copy(@, Value(offset * 8, num_bytes * 8), num_bytes, offset)]

(* Seven bits a byte, low bits first, the high bit on all but the last *)
RECURSIVE put_vlq_int(_)
put_vlq_int(v) ==
    IF v \div 128 = 0 THEN <<v>> ELSE <<(v % 128) + 128>> \o put_vlq_int(v \div 128)

RECURSIVE get_vlq_int(_)
get_vlq_int(bytes) ==
    IF bytes = <<>> THEN -1
    ELSE IF Head(bytes) < 128 THEN Head(bytes)
    ELSE (Head(bytes) % 128) + 128 * get_vlq_int(Tail(bytes))

ZigZag(v) == IF v < 0 THEN -2 * v - 1 ELSE 2 * v

UnZigZag(u) == IF u % 2 = 1 THEN -(u \div 2) - 1 ELSE u \div 2

-----------------------------------------------------------------------------
WriterInit ==
    /\ wr = new_writer /\ written = {} /\ vlq = [v |-> 0, bytes |-> <<0>>]

PutValue(num_bits) ==
    /\ wr' = put_value(wr, Value(At(wr), num_bits), num_bits)
    /\ written' = written \union
         IF wr' = wr THEN {} ELSE At(wr)..(At(wr) + num_bits - 1)
    /\ UNCHANGED vlq

PutAligned(num_bytes) ==
    LET at == flush(wr).byte_offset
    IN  /\ wr' = put_aligned(wr, num_bytes)
        /\ written' = written \union
             IF at + num_bytes > MaxBytes THEN {} ELSE (at * 8)..((at + num_bytes) * 8 - 1)
        /\ UNCHANGED vlq

(* The bytes left out so far *)
Gap == {i \in 0..(wr.byte_offset - 1) : written \intersect (i * 8)..(i * 8 + 7) = {}}

(* Leave room, to be filled later; the client has one gap at a time *)
Skip(num_bytes) ==
    /\ Gap = {}
    /\ wr' = skip(wr, num_bytes)
    /\ UNCHANGED <<written, vlq>>

FillBack(num_bytes) ==
    \E offset \in Gap :
        /\ offset..(offset + num_bytes - 1) \subseteq Gap
        /\ wr' = put_aligned_offset(wr, num_bytes, offset)
        /\ written' = written \union (offset * 8)..((offset + num_bytes) * 8 - 1)
        /\ UNCHANGED vlq

Encode(v) ==
    /\ vlq' = [v |-> v, bytes |-> put_vlq_int(ZigZag(v))]
    /\ UNCHANGED <<wr, written>>

WriterNext ==
    \/ \E num_bits \in ValueWidths : PutValue(num_bits)
    \/ \E num_bytes \in {1, 3} : PutAligned(num_bytes)
    \/ Skip(2)
    \/ FillBack(2)

VlqNext == \E n \in VlqInts, sign \in {1, -1} : Encode(sign * n)

=============================================================================

------------------------------ MODULE BitReader ------------------------------
(***************************************************************************)
(* The bit reader under every Parquet decoder (common/bit.rs).  A reader   *)
(* is a byte offset, a bit offset and a word of 64 bits loaded from the    *)
(* buffer; `loaded` is the byte the word was loaded from, so that a        *)
(* forgotten reload reads the bits of the wrong place.  Data is symbolic:  *)
(* a value is the sequence, low bit first, of the sets of stream bits      *)
(* or-ed into each of its bits.  `pos` is the bit the next read owes to    *)
(* its caller.                                                             *)
(***************************************************************************)
EXTENDS BitPacking, FiniteSetsExt

CONSTANTS
    TotalBytes,   \* length of the buffer
    Widths,       \* widths of the values read
    Totals,       \* numbers of values asked for
    BitCounts,    \* numbers of bits asked for
    DstBytes      \* length of the target of get_bits

ASSUME BitReaderAssumption ==
    /\ TotalBytes \in Nat /\ DstBytes \in Nat \ {0}
    /\ Widths \subseteq 0..32 /\ Totals \subseteq Nat /\ BitCounts \subseteq Nat

VARIABLES
    rd,    \* [byte_offset, bit_offset, loaded]
    pos,   \* stream bit the next read starts at
    call,  \* [op, from, n, width]: the last call, `from` is the bit it owed
    out    \* what it returned

bitVars == <<rd, pos, call, out>>

Bits == 64                     \* bits of buffered_values
Bytes(bits) == (bits + 7) \div 8

(* reload_buffer_values and BitReader::new: the next 8 bytes, or those     *)
(* that are left, zero-extended                                            *)
reload_buffer_values(r) == [r EXCEPT !.loaded = r.byte_offset]

new == [byte_offset |-> 0, bit_offset |-> 0, loaded |-> 0]

Buffered(r, i) ==
    {r.loaded * 8 + i} \intersect (r.loaded * 8)..(Min({TotalBytes, r.loaded + 8}) * 8 - 1)

remaining_bits(r) == (TotalBytes - r.byte_offset) * 8 - r.bit_offset

(* The word is used up: move to the next one *)
NextWord(r, bit) ==
    reload_buffer_values([r EXCEPT !.byte_offset = @ + 8, !.bit_offset = bit])

(* Bits of v, then the next word shifted left over them.  The release      *)
(* build takes a shift modulo the width of the word.                       *)
get_u64_value(r, num_bits) ==
    LET end == r.bit_offset + num_bits
        v(j) == Buffered(r, r.bit_offset + j)
    IN  IF num_bits = 0 THEN [r |-> r, v |-> <<>>]
        ELSE IF end < Bits
        THEN [r |-> [r EXCEPT !.bit_offset = end],
              v |-> [b \in 1..num_bits |-> v(b - 1)]]
        ELSE LET next == NextWord(r, end - Bits)
                 shift == (num_bits - next.bit_offset) % Bits
             IN  [r |-> next,
                  v |-> [b \in 1..num_bits |-> v(b - 1) \union
                            IF b > shift THEN Buffered(next, b - 1 - shift) ELSE {}]]

(* n values in a row, or fewer when `aligning`: until the reader stands at *)
(* the start of a word                                                     *)
RECURSIVE GetValues(_, _, _, _)
GetValues(r, n, num_bits, aligning) ==
    IF (r.bit_offset = 0 /\ aligning) \/ n = 0 THEN [r |-> r, v |-> <<>>]
    ELSE LET one == get_u64_value(r, num_bits)
             rest == GetValues(one.r, n - 1, num_bits, aligning)
         IN  [r |-> rest.r, v |-> <<one.v>> \o rest.v]

(* The blocks of 32 values go through unpack32, whose input pointer and    *)
(* the byte offset advance side by side                                    *)
UnpackBlocks(r, blocks, num_bits) ==
    [r |-> [r EXCEPT !.byte_offset = @ + blocks * 4 * num_bits],
     v |-> FlattenSeq([k \in 1..blocks |->
              unpack32(num_bits, r.byte_offset * 8
                                   + (k - 1) * WordsRead(num_bits) * WordBits)])]

(* Align to a word, unpack blocks of 32, read the rest one by one *)
get_u32_batch(r, total, num_bits) ==
    LET head   == GetValues(r, total, num_bits, TRUE)
        left   == total - Len(head.v)
        blocks == UnpackBlocks(head.r, left \div 32, num_bits)
        tail   == GetValues(reload_buffer_values(blocks.r), left % 32, num_bits, FALSE)
    IN  [r |-> tail.r, v |-> head.v \o blocks.v \o tail.v]

(* The same, for at most the values the stream still holds *)
get_batch(r, len, num_bits) ==
    get_u32_batch(r,
        IF remaining_bits(r) < num_bits * len
        THEN remaining_bits(r) \div num_bits ELSE len, num_bits)

(* Or at most num_bits of the word into dst from a bit offset on *)
get_bits_buffered(s, dst_offset, num_bits) ==
    LET n == Min({num_bits, Bits - s.r.bit_offset})
        r == [s.r EXCEPT !.bit_offset = @ + n]
    IN  IF num_bits = 0 THEN s
        ELSE [r   |-> IF r.bit_offset = Bits THEN NextWord(r, 0) ELSE r,
              i   |-> s.i + n,
              dst |-> [b \in DOMAIN s.dst |->
                  IF b \in dst_offset..(dst_offset + n - 1)
                  THEN s.dst[b] \union Buffered(s.r, s.r.bit_offset + b - dst_offset)
                  ELSE s.dst[b]]]

RECURSIVE GetBitsLoop(_, _, _)
GetBitsLoop(s, offset, n) ==
    IF s.i >= n THEN s
    ELSE GetBitsLoop(get_bits_buffered(s, offset + s.i, n - s.i), offset, n)

(* Finish the word, copy whole bytes where dst is byte aligned, or in the  *)
(* rest                                                                    *)
get_bits(r, dst, offset, num_bits) ==
    LET n == Min({remaining_bits(r), num_bits, DstBytes * 8 - offset})
        s == [r |-> r, i |-> 0, dst |-> dst]
        word == IF r.bit_offset # 0 THEN get_bits_buffered(s, offset, n) ELSE s
        num_bytes == IF (offset + word.i) % 8 = 0 THEN (n - word.i) \div 8 ELSE 0
        first == offset + word.i
        copied == IF num_bytes = 0 THEN word ELSE
            [r   |-> reload_buffer_values([word.r EXCEPT !.byte_offset = @ + num_bytes]),
             i   |-> word.i + num_bytes * 8,
             dst |-> [b \in DOMAIN dst |->
                 IF b \in first..(first + num_bytes * 8 - 1)
                 THEN {word.r.byte_offset * 8 + b - first} ELSE word.dst[b]]]
        rest == GetBitsLoop(copied, offset, n)
    IN  [r |-> rest.r, v |-> rest.dst]

(* Leave the word, skip whole bytes, then the bits that are left *)
skip_bits(r, num_bits) ==
    LET n     == Min({remaining_bits(r), num_bits})
        left  == Bits - r.bit_offset
        within == r.bit_offset # 0 /\ n < left
        i     == IF r.bit_offset = 0 THEN 0 ELSE IF within THEN n ELSE left
        word  == IF r.bit_offset = 0 THEN r
                 ELSE IF within THEN [r EXCEPT !.bit_offset = @ + n]
                 ELSE [r EXCEPT !.byte_offset = @ + 8, !.bit_offset = 0]
        num_bytes == IF i + 7 < n THEN (n - i) \div 8 ELSE 0
        bytes == [word EXCEPT !.byte_offset = @ + num_bytes]
        fresh == IF bytes.bit_offset = 0 THEN reload_buffer_values(bytes) ELSE bytes
    IN  [fresh EXCEPT !.bit_offset = @ + (n - i - num_bytes * 8)]

(* A value of whole bytes at the next byte; a value that does not fit in   *)
(* the rest of the word is read after a reload                             *)
get_aligned(r, num_bytes) ==
    LET read == Bytes(r.bit_offset)
        start == IF read + num_bytes > 8
                 THEN [reload_buffer_values([r EXCEPT !.byte_offset = @ + read])
                          EXCEPT !.bit_offset = 0]
                 ELSE [r EXCEPT !.bit_offset = read * 8]
        end == [start EXCEPT !.bit_offset = @ + num_bytes * 8]
    IN  IF r.byte_offset + read + num_bytes > TotalBytes
        THEN [r |-> r, v |-> <<>>, none |-> TRUE]
        ELSE [r |-> IF end.bit_offset = Bits THEN NextWord(end, 0) ELSE end,
              v |-> [b \in 1..(num_bytes * 8) |->
                        Buffered(start, start.bit_offset + b - 1)],
              none |-> FALSE]

-----------------------------------------------------------------------------
BitInit ==
    /\ rd = new /\ pos = 0
    /\ call = [op |-> "new", from |-> 0, n |-> 0, width |-> 0]
    /\ out = <<>>

Called(op, from, n, width) == call' = [op |-> op, from |-> from, n |-> n, width |-> width]

GetValue(width) ==
    LET got == get_u64_value(rd, width)
    IN  \/ /\ rd.byte_offset * 8 + rd.bit_offset + width > TotalBytes * 8
           /\ out' = <<>> /\ UNCHANGED <<rd, pos>>
           /\ Called("none", pos, 1, width)
        \/ /\ rd.byte_offset * 8 + rd.bit_offset + width <= TotalBytes * 8
           /\ out' = <<got.v>> /\ rd' = got.r /\ pos' = pos + width
           /\ Called("values", pos, 1, width)

(* The caller of get_u32_batch vouches for the bits: DictDecoder asks for  *)
(* no more values than its run holds                                       *)
GetU32Batch(total, width) ==
    LET got == get_u32_batch(rd, total, width)
    IN  /\ total * width <= TotalBytes * 8 - pos
        /\ out' = got.v /\ rd' = got.r /\ pos' = pos + total * width
        /\ Called("values", pos, total, width)

GetBatch(len, width) ==
    LET got == get_batch(rd, len, width)
        n == Min({len, (TotalBytes * 8 - pos) \div width})
    IN  /\ width > 0
        /\ out' = got.v /\ rd' = got.r /\ pos' = pos + n * width
        /\ Called("values", pos, n, width)

(* BoolType::decode: dst is zero from the offset on *)
GetBits(offset, num_bits) ==
    LET got == get_bits(rd, [b \in 0..(DstBytes * 8 - 1) |-> {}], offset, num_bits)
        n == Min({TotalBytes * 8 - pos, num_bits, DstBytes * 8 - offset})
    IN  /\ out' = got.v /\ rd' = got.r /\ pos' = pos + n
        /\ Called("bits", pos, n, offset)

SkipBits(num_bits) ==
    /\ rd' = skip_bits(rd, num_bits)
    /\ pos' = Min({pos + num_bits, TotalBytes * 8})
    /\ out' = <<>> /\ Called("skip", pos, 0, 0)

GetAligned(num_bytes) ==
    LET got == get_aligned(rd, num_bytes)
        start == Bytes(pos) * 8
    IN  /\ out' = <<got.v>> /\ rd' = got.r
        /\ pos' = IF got.none THEN pos ELSE start + num_bytes * 8
        /\ Called(IF got.none THEN "none" ELSE "values", start, 1, num_bytes * 8)

BitNext ==
    \/ \E width \in Widths : GetValue(width)
    \/ \E total \in Totals, width \in Widths : GetU32Batch(total, width)
    \/ \E len \in Totals, width \in Widths : GetBatch(len, width)
    \/ \E offset \in {0, 3}, n \in BitCounts : GetBits(offset, n)
    \/ \E n \in BitCounts : SkipBits(n)
    \/ \E num_bytes \in {1, 3} : GetAligned(num_bytes)

=============================================================================

----------------------------- MODULE BitPacking -----------------------------
(***************************************************************************)
(* The bit unpackers of the Parquet reader: unpack32 turns num_bits input  *)
(* words of 32 bits into 32 values of num_bits bits.  Every unpackN_32 is  *)
(* straight-line code, one block per input word; a block first completes   *)
(* the last value of the word before with its k low bits                   *)
(* ("*out |= (in % (1 << k)) << (N - k)") and then extracts n values from  *)
(* the bits k, k + N, k + 2N, ... upwards, the last of which may reach     *)
(* beyond the word.  A function is therefore the sequence of the <<k, n>>  *)
(* of its blocks.  A value is the sequence, low bit first, of the sets of  *)
(* input bits or-ed into each of its bits.                                 *)
(***************************************************************************)
EXTENDS Integers, Sequences, SequencesExt

WordBits == 32

unpack1_32 == <<<<0, 32>>>>

unpack2_32 == <<<<0, 16>>, <<0, 16>>>>

unpack3_32 == <<<<0, 11>>, <<1, 11>>, <<2, 10>>>>

unpack4_32 == [word \in 1..4 |-> <<0, 8>>]

unpack5_32 == <<<<0, 7>>, <<3, 6>>, <<1, 7>>, <<4, 6>>, <<2, 6>>>>

unpack6_32 == <<<<0, 6>>, <<4, 5>>, <<2, 5>>, <<0, 6>>, <<4, 5>>, <<2, 5>>>>

unpack7_32 ==
    <<<<0, 5>>, <<3, 5>>, <<6, 4>>, <<2, 5>>, <<5, 4>>, <<1, 5>>,
      <<4, 4>>>>

unpack8_32 == [word \in 1..8 |-> <<0, 4>>]

unpack9_32 ==
    <<<<0, 4>>, <<4, 4>>, <<8, 3>>, <<3, 4>>, <<7, 3>>, <<2, 4>>,
      <<6, 3>>, <<1, 4>>, <<5, 3>>>>

(* Mutant: the second word completes a value with one bit too few. *)
Unpack10CarryShort ==
    <<<<0, 4>>, <<7, 3>>, <<6, 3>>, <<4, 3>>, <<2, 3>>, <<0, 4>>,
      <<8, 3>>, <<6, 3>>, <<4, 3>>, <<2, 3>>>>

unpack10_32 ==
    <<<<0, 4>>, <<8, 3>>, <<6, 3>>, <<4, 3>>, <<2, 3>>, <<0, 4>>,
      <<8, 3>>, <<6, 3>>, <<4, 3>>, <<2, 3>>>>

unpack11_32 ==
    <<<<0, 3>>, <<1, 3>>, <<2, 3>>, <<3, 3>>, <<4, 3>>, <<5, 3>>,
      <<6, 3>>, <<7, 3>>, <<8, 3>>, <<9, 3>>, <<10, 2>>>>

unpack12_32 ==
    <<<<0, 3>>, <<4, 3>>, <<8, 2>>, <<0, 3>>, <<4, 3>>, <<8, 2>>,
      <<0, 3>>, <<4, 3>>, <<8, 2>>, <<0, 3>>, <<4, 3>>, <<8, 2>>>>

unpack13_32 ==
    <<<<0, 3>>, <<7, 2>>, <<1, 3>>, <<8, 2>>, <<2, 3>>, <<9, 2>>,
      <<3, 3>>, <<10, 2>>, <<4, 3>>, <<11, 2>>, <<5, 3>>, <<12, 2>>,
      <<6, 2>>>>

unpack14_32 ==
    <<<<0, 3>>, <<10, 2>>, <<6, 2>>, <<2, 3>>, <<12, 2>>, <<8, 2>>,
      <<4, 2>>, <<0, 3>>, <<10, 2>>, <<6, 2>>, <<2, 3>>, <<12, 2>>,
      <<8, 2>>, <<4, 2>>>>

unpack15_32 ==
    <<<<0, 3>>, <<13, 2>>, <<11, 2>>, <<9, 2>>, <<7, 2>>, <<5, 2>>,
      <<3, 2>>, <<1, 3>>, <<14, 2>>, <<12, 2>>, <<10, 2>>, <<8, 2>>,
      <<6, 2>>, <<4, 2>>, <<2, 2>>>>

unpack16_32 == [word \in 1..16 |-> <<0, 2>>]

unpack17_32 ==
    <<<<0, 2>>, <<2, 2>>, <<4, 2>>, <<6, 2>>, <<8, 2>>, <<10, 2>>,
      <<12, 2>>, <<14, 2>>, <<16, 1>>, <<1, 2>>, <<3, 2>>, <<5, 2>>,
      <<7, 2>>, <<9, 2>>, <<11, 2>>, <<13, 2>>, <<15, 1>>>>

unpack18_32 ==
    <<<<0, 2>>, <<4, 2>>, <<8, 2>>, <<12, 2>>, <<16, 1>>, <<2, 2>>,
      <<6, 2>>, <<10, 2>>, <<14, 1>>, <<0, 2>>, <<4, 2>>, <<8, 2>>,
      <<12, 2>>, <<16, 1>>, <<2, 2>>, <<6, 2>>, <<10, 2>>, <<14, 1>>>>

unpack19_32 ==
    <<<<0, 2>>, <<6, 2>>, <<12, 2>>, <<18, 1>>, <<5, 2>>, <<11, 2>>,
      <<17, 1>>, <<4, 2>>, <<10, 2>>, <<16, 1>>, <<3, 2>>, <<9, 2>>,
      <<15, 1>>, <<2, 2>>, <<8, 2>>, <<14, 1>>, <<1, 2>>, <<7, 2>>,
      <<13, 1>>>>

unpack20_32 ==
    <<<<0, 2>>, <<8, 2>>, <<16, 1>>, <<4, 2>>, <<12, 1>>, <<0, 2>>,
      <<8, 2>>, <<16, 1>>, <<4, 2>>, <<12, 1>>, <<0, 2>>, <<8, 2>>,
      <<16, 1>>, <<4, 2>>, <<12, 1>>, <<0, 2>>, <<8, 2>>, <<16, 1>>,
      <<4, 2>>, <<12, 1>>>>

unpack21_32 ==
    <<<<0, 2>>, <<10, 2>>, <<20, 1>>, <<9, 2>>, <<19, 1>>, <<8, 2>>,
      <<18, 1>>, <<7, 2>>, <<17, 1>>, <<6, 2>>, <<16, 1>>, <<5, 2>>,
      <<15, 1>>, <<4, 2>>, <<14, 1>>, <<3, 2>>, <<13, 1>>, <<2, 2>>,
      <<12, 1>>, <<1, 2>>, <<11, 1>>>>

unpack22_32 ==
    <<<<0, 2>>, <<12, 1>>, <<2, 2>>, <<14, 1>>, <<4, 2>>, <<16, 1>>,
      <<6, 2>>, <<18, 1>>, <<8, 2>>, <<20, 1>>, <<10, 1>>, <<0, 2>>,
      <<12, 1>>, <<2, 2>>, <<14, 1>>, <<4, 2>>, <<16, 1>>, <<6, 2>>,
      <<18, 1>>, <<8, 2>>, <<20, 1>>, <<10, 1>>>>

unpack23_32 ==
    <<<<0, 2>>, <<14, 1>>, <<5, 2>>, <<19, 1>>, <<10, 1>>, <<1, 2>>,
      <<15, 1>>, <<6, 2>>, <<20, 1>>, <<11, 1>>, <<2, 2>>, <<16, 1>>,
      <<7, 2>>, <<21, 1>>, <<12, 1>>, <<3, 2>>, <<17, 1>>, <<8, 2>>,
      <<22, 1>>, <<13, 1>>, <<4, 2>>, <<18, 1>>, <<9, 1>>>>

unpack24_32 ==
    <<<<0, 2>>, <<16, 1>>, <<8, 1>>, <<0, 2>>, <<16, 1>>, <<8, 1>>,
      <<0, 2>>, <<16, 1>>, <<8, 1>>, <<0, 2>>, <<16, 1>>, <<8, 1>>,
      <<0, 2>>, <<16, 1>>, <<8, 1>>, <<0, 2>>, <<16, 1>>, <<8, 1>>,
      <<0, 2>>, <<16, 1>>, <<8, 1>>, <<0, 2>>, <<16, 1>>, <<8, 1>>>>

unpack25_32 ==
    <<<<0, 2>>, <<18, 1>>, <<11, 1>>, <<4, 2>>, <<22, 1>>, <<15, 1>>,
      <<8, 1>>, <<1, 2>>, <<19, 1>>, <<12, 1>>, <<5, 2>>, <<23, 1>>,
      <<16, 1>>, <<9, 1>>, <<2, 2>>, <<20, 1>>, <<13, 1>>, <<6, 2>>,
      <<24, 1>>, <<17, 1>>, <<10, 1>>, <<3, 2>>, <<21, 1>>, <<14, 1>>,
      <<7, 1>>>>

unpack26_32 ==
    <<<<0, 2>>, <<20, 1>>, <<14, 1>>, <<8, 1>>, <<2, 2>>, <<22, 1>>,
      <<16, 1>>, <<10, 1>>, <<4, 2>>, <<24, 1>>, <<18, 1>>, <<12, 1>>,
      <<6, 1>>, <<0, 2>>, <<20, 1>>, <<14, 1>>, <<8, 1>>, <<2, 2>>,
      <<22, 1>>, <<16, 1>>, <<10, 1>>, <<4, 2>>, <<24, 1>>, <<18, 1>>,
      <<12, 1>>, <<6, 1>>>>

unpack27_32 ==
    <<<<0, 2>>, <<22, 1>>, <<17, 1>>, <<12, 1>>, <<7, 1>>, <<2, 2>>,
      <<24, 1>>, <<19, 1>>, <<14, 1>>, <<9, 1>>, <<4, 2>>, <<26, 1>>,
      <<21, 1>>, <<16, 1>>, <<11, 1>>, <<6, 1>>, <<1, 2>>, <<23, 1>>,
      <<18, 1>>, <<13, 1>>, <<8, 1>>, <<3, 2>>, <<25, 1>>, <<20, 1>>,
      <<15, 1>>, <<10, 1>>, <<5, 1>>>>

unpack28_32 ==
    <<<<0, 2>>, <<24, 1>>, <<20, 1>>, <<16, 1>>, <<12, 1>>, <<8, 1>>,
      <<4, 1>>, <<0, 2>>, <<24, 1>>, <<20, 1>>, <<16, 1>>, <<12, 1>>,
      <<8, 1>>, <<4, 1>>, <<0, 2>>, <<24, 1>>, <<20, 1>>, <<16, 1>>,
      <<12, 1>>, <<8, 1>>, <<4, 1>>, <<0, 2>>, <<24, 1>>, <<20, 1>>,
      <<16, 1>>, <<12, 1>>, <<8, 1>>, <<4, 1>>>>

unpack29_32 ==
    <<<<0, 2>>, <<26, 1>>, <<23, 1>>, <<20, 1>>, <<17, 1>>, <<14, 1>>,
      <<11, 1>>, <<8, 1>>, <<5, 1>>, <<2, 2>>, <<28, 1>>, <<25, 1>>,
      <<22, 1>>, <<19, 1>>, <<16, 1>>, <<13, 1>>, <<10, 1>>, <<7, 1>>,
      <<4, 1>>, <<1, 2>>, <<27, 1>>, <<24, 1>>, <<21, 1>>, <<18, 1>>,
      <<15, 1>>, <<12, 1>>, <<9, 1>>, <<6, 1>>, <<3, 1>>>>

unpack30_32 ==
    <<<<0, 2>>, <<28, 1>>, <<26, 1>>, <<24, 1>>, <<22, 1>>, <<20, 1>>,
      <<18, 1>>, <<16, 1>>, <<14, 1>>, <<12, 1>>, <<10, 1>>, <<8, 1>>,
      <<6, 1>>, <<4, 1>>, <<2, 1>>, <<0, 2>>, <<28, 1>>, <<26, 1>>,
      <<24, 1>>, <<22, 1>>, <<20, 1>>, <<18, 1>>, <<16, 1>>, <<14, 1>>,
      <<12, 1>>, <<10, 1>>, <<8, 1>>, <<6, 1>>, <<4, 1>>, <<2, 1>>>>

unpack31_32 ==
    <<<<0, 2>>, <<30, 1>>, <<29, 1>>, <<28, 1>>, <<27, 1>>, <<26, 1>>,
      <<25, 1>>, <<24, 1>>, <<23, 1>>, <<22, 1>>, <<21, 1>>, <<20, 1>>,
      <<19, 1>>, <<18, 1>>, <<17, 1>>, <<16, 1>>, <<15, 1>>, <<14, 1>>,
      <<13, 1>>, <<12, 1>>, <<11, 1>>, <<10, 1>>, <<9, 1>>, <<8, 1>>,
      <<7, 1>>, <<6, 1>>, <<5, 1>>, <<4, 1>>, <<3, 1>>, <<2, 1>>,
      <<1, 1>>>>

unpack32_32 == [word \in 1..32 |-> <<0, 1>>]

(* nullunpacker32 reads no word: its values have no bits *)
nullunpacker32 == <<>>

(* The dispatch on the width *)
Unpacker(num_bits) ==
    IF num_bits = 0 THEN nullunpacker32 ELSE
      <<unpack1_32, unpack2_32, unpack3_32, unpack4_32, unpack5_32,
        unpack6_32, unpack7_32, unpack8_32, unpack9_32, unpack10_32,
        unpack11_32, unpack12_32, unpack13_32, unpack14_32, unpack15_32,
        unpack16_32, unpack17_32, unpack18_32, unpack19_32, unpack20_32,
        unpack21_32, unpack22_32, unpack23_32, unpack24_32, unpack25_32,
        unpack26_32, unpack27_32, unpack28_32, unpack29_32, unpack30_32,
        unpack31_32, unpack32_32>>[num_bits]

(* The values in output order: the word and the shift each is extracted   *)
(* from, and how many bits the next block carries into it                  *)
Extractions(blocks, num_bits) ==
    FlattenSeq([word \in DOMAIN blocks |->
        [v \in 1..blocks[word][2] |->
            [word |-> word, shift |-> blocks[word][1] + (v - 1) * num_bits,
             carry |-> IF v = blocks[word][2] /\ word < Len(blocks)
                       THEN blocks[word + 1][1] ELSE 0]]])

(* The input bits or-ed into bit j of an extracted value *)
ExtractedBit(e, num_bits, j) ==
    (IF e.shift + j < WordBits
        THEN {(e.word - 1) * WordBits + e.shift + j} ELSE {})
    \union
    (IF j >= num_bits - e.carry
        THEN {e.word * WordBits + j - (num_bits - e.carry)} ELSE {})

(* The 32 values unpack32 writes, from the stream bit `from` on *)
unpack32(num_bits, from) ==
    IF num_bits = 0 THEN [v \in 1..32 |-> <<>>] ELSE
    LET values == Extractions(Unpacker(num_bits), num_bits)
    IN  [v \in DOMAIN values |-> [b \in 1..num_bits |->
            {from + i : i \in ExtractedBit(values[v], num_bits, b - 1)}]]

(* The words unpack32 moves its input pointer by *)
WordsRead(num_bits) == Len(Unpacker(num_bits))

=============================================================================

----------------------------- MODULE MCBitStream -----------------------------
(***************************************************************************)
(* A reader over a buffer and a writer into one, for model checking.  A    *)
(* behaviour is about one of the two.                                      *)
(***************************************************************************)
EXTENDS BitReader, BitWriter

VARIABLE subject

mcVars == <<bitVars, writerVars, subject>>

Init == BitInit /\ WriterInit /\ subject \in {"reader", "writer", "vlq", "unpack"}

(* unpack32 on its own, for every width, which a buffer of this length     *)
(* would not hold                                                          *)
Unpack(width) ==
    /\ out' = unpack32(width, 0)
    /\ call' = [op |-> "values", from |-> 0, n |-> 32, width |-> width]
    /\ UNCHANGED <<rd, pos>>

ReaderStep == subject = "reader" /\ BitNext /\ UNCHANGED <<writerVars, subject>>
WriterStep == subject = "writer" /\ WriterNext /\ UNCHANGED <<bitVars, subject>>
UnpackStep == subject = "unpack" /\ (\E width \in 0..32 : Unpack(width))
                /\ UNCHANGED <<writerVars, subject>>

VlqStep == subject = "vlq" /\ VlqNext /\ UNCHANGED <<bitVars, subject>>

Next == ReaderStep \/ WriterStep \/ VlqStep \/ UnpackStep

Spec == Init /\ [][Next]_mcVars

(* Whatever was read, skipped or realigned before, a read returns the next *)
(* bits of the stream: value v is bits v * width onwards of what is owed,  *)
(* every bit from exactly one stream bit, and no read crosses a reload, a  *)
(* block of unpack32 or a byte copy out of step.  A read returns None only *)
(* when the stream holds fewer bits than it needs; get_u64_value itself    *)
(* has no such check.                                                      *)
ReadsAreConsecutive ==
    /\ call.op = "values" =>
         out = [v \in 1..call.n |-> [b \in 1..call.width |->
                    {call.from + (v - 1) * call.width + b - 1}]]
    /\ call.op = "bits" =>
         \A b \in DOMAIN out :
            out[b] = IF b \in call.width..(call.width + call.n - 1)
                     THEN {call.from + b - call.width} ELSE {}
    /\ call.op = "none" => call.from + call.n * call.width > TotalBytes * 8

(* Every bit handed to put_value, put_aligned or put_aligned_offset is, on *)
(* flush, at its position in the buffer, alone, and the bits between are   *)
(* zero: a value split over two words keeps both parts.  And               *)
(* get_zigzag_vlq_int undoes put_zigzag_vlq_int, also where a group of     *)
(* seven bits ends.                                                        *)
WritesLandInPlace ==
    LET flushed == flush(wr)
    IN  /\ \A b \in 0..(flushed.byte_offset * 8 - 1) :
               flushed.buffer[b] = IF b \in written THEN {b} ELSE {}
        /\ UnZigZag(get_vlq_int(vlq.bytes)) = vlq.v

=============================================================================

---------------------------- MODULE NativeShuffle ----------------------------
(***************************************************************************)
(* A native shuffle from end to end: the writer of a map task, another     *)
(* operator of the same plan that uses the same memory pool, and a reader  *)
(* of some partitions of the committed map output.                         *)
(***************************************************************************)
EXTENDS NativeShuffleWriter, ShuffleReader

CONSTANTS
    MaxOther,   \* bound: largest request of another operator
    MayCut      \* whether a fetched stream may end early

VARIABLES
    first, last,  \* partitions the reader reads
    cut           \* how the last stream ends: "whole", "boundary" or "inside"

readVars == <<readerVars, first, last, cut>>
vars == <<poolVars, writerVars, readVars>>

Init ==
    /\ WriterInit
    /\ ReaderInit
    /\ first = 0
    /\ last = 0
    /\ cut = "whole"

-----------------------------------------------------------------------------
(* Another operator reserves memory while the plan runs. *)

OtherUnchanged == UNCHANGED <<writerVars, readVars>>

(* Others are followed only where the writer reserves memory too. *)
Running ==
    /\ pc \notin {"start", "close", "commit", "committed", "failed"}
    /\ scheme # "single"

OtherGrows(c) ==
    /\ Running
    /\ Register(c) \/ \E n \in 1 .. MaxOther : TryGrow(c, n)
    /\ OtherUnchanged

OtherShrinks(c) ==
    /\ Running \/ pc = "close"
    /\ (\E n \in 1 .. size[c] : Shrink(c, n)) \/ Unregister(c)
    /\ OtherUnchanged

PoolCall(c) == PoolStep(c) /\ OtherUnchanged

-----------------------------------------------------------------------------

(* The blocks Spark fetches for a range of partitions: one stream for each *)
(* that is not empty, or one for all of them when they are fetched in batch.*)
FetchedStreams(lo, hi, batchFetch) ==
    LET blocks == SelectSeq([i \in 1 .. hi - lo + 1 |-> Segment(lo + i - 1)],
                            LAMBDA s : s # <<>>)
    IN  IF batchFetch /\ blocks # <<>> THEN <<FlattenSeq(blocks)>> ELSE blocks

(* A stream that is cut after k cells ends a block when what follows is    *)
(* the first cell of a length.                                             *)
CutAt(stream, k) ==
    IF k = Len(stream) THEN "whole"
    ELSE IF stream[k + 1].kind = "length" /\ (k = 0 \/ stream[k].kind # "length")
      THEN "boundary"
    ELSE "inside"

StartRead ==
    /\ pc = "committed"
    /\ \E lo, hi \in Partitions, batchFetch \in BOOLEAN :
          /\ lo <= hi
          /\ first' = lo
          /\ last' = hi
          /\ LET whole == FetchedStreams(lo, hi, batchFetch)
                 n == Len(whole)
             IN  IF n = 0 THEN Read(whole) /\ cut' = "whole"
                 ELSE \E k \in IF MayCut THEN 0 .. Len(whole[n]) ELSE {Len(whole[n])} :
                        /\ Read([whole EXCEPT ![n] = SubSeq(whole[n], 1, k)])
                        /\ cut' = CutAt(whole[n], k)
    /\ UNCHANGED <<poolVars, writerVars>>

Others == Consumers \ {Writer}

Finished == pc = "failed" \/ reader = "ended"

Next ==
    \/ NextBatch /\ UNCHANGED readVars
    \/ WriterProgress /\ UNCHANGED readVars
    \/ \E c \in Others : OtherGrows(c) \/ OtherShrinks(c)
    \/ \E c \in Consumers : PoolCall(c)
    \/ StartRead
    \/ ReaderStep /\ UNCHANGED <<poolVars, writerVars, first, last, cut>>
    \/ Finished /\ UNCHANGED vars

(* The task's thread keeps running, the input ends, pool calls return and  *)
(* the operators of a closed plan are dropped.                             *)
Spec ==
    /\ Init /\ [][Next]_vars
    /\ WF_vars(WriterProgress /\ UNCHANGED readVars)
    /\ \A c \in Others : WF_vars(pc = "close" /\ OtherShrinks(c))
    /\ \A c \in Consumers : WF_vars(PoolCall(c))

-----------------------------------------------------------------------------
(* Properties *)

(* Rows routed to the partitions that are read, in the order of the partitions *)
Expected ==
    FlattenSeq([i \in 1 .. last - first + 1 |-> Abstract!Routed(first + i - 1)])

(* What the reader delivers is always a prefix of the rows that were       *)
(* written for its partitions.  When it ends without an exception it has   *)
(* delivered all of them, unless its last stream was cut exactly between   *)
(* two blocks: any other early end of a stream is noticed.                 *)
ReadsExact ==
    /\ reader # "off" => IsPrefix(delivered, Expected)
    /\ reader = "exhausted" => cut # "inside"
    /\ reader = "exhausted" /\ cut = "whole" => delivered = Expected

(* Every write ends, even when no memory is ever granted: a refused        *)
(* reservation makes the writer spill and go on, and never wait.           *)
EveryWriteEnds == <>(pc \in {"committed", "failed"})

=============================================================================

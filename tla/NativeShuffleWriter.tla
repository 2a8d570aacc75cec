------------------------- MODULE NativeShuffleWriter -------------------------
(***************************************************************************)
(* The native shuffle write of one map task: ShuffleWriterExec with its    *)
(* multi-partition and single-partition partitioners, and the commit by    *)
(* CometNativeShuffleWriter.                                               *)
(*                                                                         *)
(* Rows are numbered in the order of the input and have keys; a key stands *)
(* for the hash of the row, or for its value under range partitioning.     *)
(* The memory of a batch is the number of its rows.  Memory is reserved in *)
(* the pools of MemoryPools, which other operators of the plan also use.   *)
(***************************************************************************)
EXTENDS MemoryPools, ShuffleBlocks, FiniteSets

CONSTANTS
    Writer,         \* the consumer ShuffleRepartitioner
    Schemes,        \* partitioning schemes explored
    NumPartitions,  \* output partitions unless the scheme is single
    Keys,
    HashBits,       \* width of a hash (32 in the code)
    Bounds,         \* range bounds, ascending
    BatchSize,      \* batch_size
    BufferMax,      \* buffer_max_size of BufBatchWriter, in cells
    MaxRows,        \* bound: rows of the input
    MayFail         \* whether input, spill and output may fail

ASSUME WriterAssumption ==
    /\ Writer \in Consumers
    /\ Schemes \subseteq {"hash", "range", "single"}
    /\ NumPartitions \in Nat \ {0, 1}
    /\ Keys \subseteq 0 .. 2 ^ HashBits - 1
    /\ Len(Bounds) < NumPartitions
    /\ BatchSize \in Nat \ {0}
    /\ MayFail \in BOOLEAN

VARIABLES
    scheme,
    keys,        \* keys of the rows read from the input
    pc,
    batch,       \* rows of the current input batch that are not yet inserted
    next,        \* where the writer goes after its reservation was freed
    buffered,    \* buffered_batches
    indices,     \* partition_indices
    spillFile,   \* spill file of each partition
    outBuffer,   \* buffer of the single partition's BufBatchWriter
    dataFile, offsets,
    lengths      \* partitionLengths of the committed map output

fileVars == <<spillFile, outBuffer, dataFile, offsets, lengths>>
writerVars == <<scheme, keys, pc, batch, next, buffered, indices, fileVars>>

Partitions == IF scheme = "single" THEN {0} ELSE 0 .. NumPartitions - 1

NoIndices == [p \in Partitions |-> <<>>]

WriterInit ==
    /\ PoolInit
    /\ scheme \in Schemes
    /\ keys = <<>>
    /\ pc = "start"
    /\ batch = <<>>
    /\ next = "none"
    /\ buffered = <<>>
    /\ indices = NoIndices
    /\ spillFile = NoIndices
    /\ outBuffer = <<>>
    /\ dataFile = <<>>
    /\ offsets = <<>>
    /\ lengths = <<>>

-----------------------------------------------------------------------------
(* Partition ids *)

(* A hash read as a signed integer *)
Signed(h) == IF h >= 2 ^ (HashBits - 1) THEN h - 2 ^ HashBits ELSE h

(* Remainder of the division that truncates *)
TruncRem(a, n) == IF a >= 0 THEN a % n ELSE -((-a) % n)

Pmod(hash, n) ==
    LET r == TruncRem(Signed(hash), n) IN IF r < 0 THEN (r + n) % n ELSE r

(* slice::partition_point of the bounds that are not above the key *)
PartitionPoint(key) ==
    CHOOSE k \in 0 .. Len(Bounds) :
        /\ \A j \in 1 .. k : Bounds[j] <= key
        /\ k < Len(Bounds) => Bounds[k + 1] > key

PartitionId(key) ==
    CASE scheme = "hash"   -> Pmod(key, NumPartitions)
      [] scheme = "range"  -> PartitionPoint(key)
      [] scheme = "single" -> 0

(* map_partition_ids_to_starts_and_indices: count, accumulate, and place   *)
(* the rows from the last to the first.                                    *)
StartsAndIndices(ids) ==
    LET counters == [p \in 0 .. NumPartitions |-> Len(SelectSeq(ids, LAMBDA id : id = p))]
        ends[p \in 0 .. NumPartitions] ==
            counters[p] + (IF p = 0 THEN 0 ELSE ends[p - 1])
        place[k \in 0 .. Len(ids)] ==
            IF k = 0 THEN [starts |-> ends, rows |-> [i \in DOMAIN ids |-> 0]]
            ELSE LET row == Len(ids) + 1 - k
                     id == ids[row]
                     end == place[k - 1].starts[id] - 1
                 IN  [starts |-> [place[k - 1].starts EXCEPT ![id] = end],
                      rows |-> [place[k - 1].rows EXCEPT ![end + 1] = row]]
    IN  place[Len(ids)]

-----------------------------------------------------------------------------
(* external_shuffle *)

Start ==
    /\ pc = "start"
    /\ pc' = "input"
    /\ IF scheme = "single" THEN UNCHANGED poolVars ELSE Register(Writer)
    /\ UNCHANGED <<scheme, keys, batch, next, buffered, indices, fileVars>>

NextBatch ==
    /\ pc = "input"
    /\ \E n \in 0 .. MaxRows - Len(keys) : \E ks \in [1 .. n -> Keys] :
          /\ keys' = keys \o ks
          /\ batch' = [i \in 1 .. n |-> Len(keys) + i]
          /\ pc' = IF n = 0 THEN "input" ELSE "insert"
    /\ UNCHANGED <<scheme, next, buffered, indices, fileVars, poolVars>>

EndOfInput ==
    /\ pc = "input"
    /\ pc' = "write"
    /\ UNCHANGED <<scheme, keys, batch, next, buffered, indices, fileVars, poolVars>>

(* The reservation is freed, by the writer or because it is dropped. *)
FreeThen(cont) == pc' = "free" /\ next' = cont

InputFails ==
    /\ MayFail
    /\ pc = "input"
    /\ FreeThen("failed")
    /\ UNCHANGED <<scheme, keys, batch, buffered, indices, fileVars, poolVars>>

-----------------------------------------------------------------------------
(* MultiPartitionShuffleRepartitioner *)

(* Where insert_batch continues: with the next slice or the next batch *)
Resume(rest) == IF rest = <<>> THEN "input" ELSE "insert"

(* partitioning_batch and buffer_partitioned_batch_may_spill up to         *)
(* try_grow, for the next slice of the input batch                         *)
PartitioningBatch ==
    /\ pc = "insert" /\ scheme # "single"
    /\ LET n == IF Len(batch) < BatchSize THEN Len(batch) ELSE BatchSize
           slice == SubSeq(batch, 1, n)
           s == StartsAndIndices([i \in 1 .. n |-> PartitionId(keys[slice[i]])])
       IN  /\ buffered' = Append(buffered, slice)
           /\ indices' = [p \in Partitions |-> indices[p] \o
                            [j \in 1 .. s.starts[p + 1] - s.starts[p] |->
                                <<Len(buffered) + 1, s.rows[s.starts[p] + j]>>]]
           /\ batch' = SubSeq(batch, n + 1, Len(batch))
    /\ pc' = "grow"
    /\ UNCHANGED <<scheme, keys, next, fileVars, poolVars>>

Grow ==
    /\ pc = "grow"
    /\ TryGrow(Writer, Len(Last(buffered)))
    /\ pc' = "growing"
    /\ UNCHANGED <<scheme, keys, batch, next, buffered, indices, fileVars>>

(* Mutant: the writer tries again until the memory is granted. *)
GrowReturnsRetry ==
    /\ pc = "growing"
    /\ op[Writer] = "idle"
    /\ pc' = IF Writer \in refused THEN "grow" ELSE Resume(batch)
    /\ UNCHANGED <<scheme, keys, batch, next, buffered, indices, fileVars, poolVars>>

GrowReturns ==
    /\ pc = "growing"
    /\ op[Writer] = "idle"
    /\ pc' = IF Writer \in refused THEN "spill" ELSE Resume(batch)
    /\ UNCHANGED <<scheme, keys, batch, next, buffered, indices, fileVars, poolVars>>

(* The buffered rows of a partition, interleaved from the batches *)
BufferedRows(p) == [i \in DOMAIN indices[p] |-> buffered[indices[p][i][1]][indices[p][i][2]]]

(* partitioned_batches takes the buffers. *)
TakeBuffers == buffered' = <<>> /\ indices' = NoIndices

(* Mutant: the spill file is written from its beginning. *)
SpillTruncates ==
    /\ pc = "spill"
    /\ spillFile' = [p \in Partitions |->
                        IF indices[p] = <<>> THEN spillFile[p]
                        ELSE WriteAll(BufferedRows(p), BatchSize)]
    /\ TakeBuffers
    /\ FreeThen("insert")
    /\ UNCHANGED <<scheme, keys, batch, outBuffer, dataFile, offsets, lengths, poolVars>>

Spill ==
    /\ pc = "spill"
    /\ spillFile' = [p \in Partitions |-> spillFile[p] \o WriteAll(BufferedRows(p), BatchSize)]
    /\ TakeBuffers
    /\ FreeThen("insert")
    /\ UNCHANGED <<scheme, keys, batch, outBuffer, dataFile, offsets, lengths, poolVars>>

(* An error while partition k is spilled; the batches are already taken. *)
SpillFails ==
    /\ MayFail
    /\ pc = "spill"
    /\ \E k \in Partitions :
          spillFile' = [p \in Partitions |->
                           IF p < k THEN spillFile[p] \o WriteAll(BufferedRows(p), BatchSize)
                                    ELSE spillFile[p]]
    /\ TakeBuffers
    /\ FreeThen("failed")
    /\ UNCHANGED <<scheme, keys, batch, outBuffer, dataFile, offsets, lengths, poolVars>>

(* reservation.free() *)
Free ==
    /\ pc = "free"
    /\ Shrink(Writer, size[Writer]) \/ (size[Writer] = 0 /\ UNCHANGED poolVars)
    /\ pc' = "freeing"
    /\ UNCHANGED <<scheme, keys, batch, next, buffered, indices, fileVars>>

(* After a spill the loop continues.  A dropped partitioner unregisters,   *)
(* and its buffers and temporary files go with it.                         *)
Freed ==
    /\ pc = "freeing"
    /\ op[Writer] = "idle"
    /\ \/ /\ next = "insert"
          /\ pc' = Resume(batch)
          /\ UNCHANGED <<batch, buffered, indices, spillFile, outBuffer, poolVars>>
       \/ /\ next # "insert"
          /\ pc' = next
          /\ Unregister(Writer) \/ (Writer \notin registered /\ UNCHANGED poolVars)
          /\ batch' = <<>> /\ buffered' = <<>> /\ outBuffer' = <<>>
          /\ indices' = NoIndices /\ spillFile' = NoIndices
    /\ next' = "none"
    /\ UNCHANGED <<scheme, keys, dataFile, offsets, lengths>>

(* The bytes of a partition: its spill file, then the rows in memory *)
PartitionBytes(p) == spillFile[p] \o WriteAll(BufferedRows(p), BatchSize)

(* shuffle_write: partition after partition, the offset of each before it *)
ShuffleWrite ==
    /\ pc = "write" /\ scheme # "single"
    /\ LET file[p \in 0 .. NumPartitions] ==
              IF p = 0 THEN <<>> ELSE file[p - 1] \o PartitionBytes(p - 1)
       IN  /\ dataFile' = file[NumPartitions]
           /\ offsets' = [i \in 1 .. NumPartitions + 1 |-> Len(file[i - 1])]
    /\ TakeBuffers
    /\ FreeThen("close")
    /\ UNCHANGED <<scheme, keys, batch, spillFile, outBuffer, lengths, poolVars>>

-----------------------------------------------------------------------------
(* SinglePartitionShufflePartitioner; it reserves no memory. *)

(* BufBatchWriter.write: the buffer goes to the file once it is large. *)
BufWrite(out, rows) ==
    LET buffer == out.buffer \o WriteBatch(rows)
    IN  IF Len(buffer) >= BufferMax
          THEN [buffer |-> <<>>, file |-> out.file \o buffer]
          ELSE [buffer |-> buffer, file |-> out.file]

Output == [buffer |-> outBuffer, file |-> dataFile]

(* insert_batch: small batches are gathered into one of about BatchSize. *)
SingleInsert ==
    /\ pc = "insert" /\ scheme = "single"
    /\ LET gathered == FlattenSeq(buffered)
           flush == Len(batch) >= BatchSize \/ Len(batch) + Len(gathered) > BatchSize
           first == IF flush THEN BufWrite(Output, gathered) ELSE Output
           out == IF Len(batch) >= BatchSize THEN BufWrite(first, batch) ELSE first
           rest == IF flush THEN <<>> ELSE buffered
       IN  /\ outBuffer' = out.buffer
           /\ dataFile' = out.file
           /\ buffered' = IF Len(batch) >= BatchSize THEN rest ELSE Append(rest, batch)
    /\ batch' = <<>>
    /\ pc' = "input"
    /\ UNCHANGED <<scheme, keys, next, indices, spillFile, offsets, lengths, poolVars>>

(* shuffle_write *)
SingleWrite ==
    /\ pc = "write" /\ scheme = "single"
    /\ LET out == BufWrite(Output, FlattenSeq(buffered))
       IN  /\ dataFile' = out.file \o out.buffer
           /\ offsets' = <<0, Len(dataFile')>>
    /\ outBuffer' = <<>>
    /\ buffered' = <<>>
    /\ FreeThen("close")
    /\ UNCHANGED <<scheme, keys, batch, indices, spillFile, lengths, poolVars>>

-----------------------------------------------------------------------------

(* An error while a batch is inserted or the output is written *)
WriteFails ==
    /\ MayFail
    /\ pc \in {"insert", "write"}
    /\ FreeThen("failed")
    /\ UNCHANGED <<scheme, keys, batch, buffered, indices, fileVars, poolVars>>

(* The stream of the plan has ended: CometExecIterator closes the plan     *)
(* once every operator has dropped its reservation.                        *)
Close ==
    /\ pc = "close"
    /\ registered = {}
    /\ pc' = "commit"
    /\ UNCHANGED <<scheme, keys, batch, next, buffered, indices, fileVars, poolVars>>

(* CometNativeShuffleWriter.write: lengths from the offsets, then commit *)
Commit ==
    /\ pc = "commit"
    /\ lengths' = [i \in 1 .. Len(offsets) - 1 |->
                      offsets[i + 1] - IF i = 1 THEN 0 ELSE offsets[i]]
    /\ pc' = "committed"
    /\ UNCHANGED <<scheme, keys, batch, next, buffered, indices, spillFile,
                   outBuffer, dataFile, offsets, poolVars>>

(* What the task's thread does by itself; a batch need not arrive. *)
WriterProgress ==
    \/ Start \/ EndOfInput \/ InputFails
    \/ PartitioningBatch \/ Grow \/ GrowReturns
    \/ Spill \/ SpillFails \/ Free \/ Freed
    \/ ShuffleWrite \/ SingleInsert \/ SingleWrite
    \/ WriteFails \/ Close \/ Commit

-----------------------------------------------------------------------------
(* Properties *)

(* The bytes of partition p that the committed lengths delimit *)
Segment(p) ==
    LET start[i \in 0 .. Len(lengths)] == IF i = 0 THEN 0 ELSE start[i - 1] + lengths[i]
    IN  SubSeq(dataFile, start[p] + 1, start[p + 1])

(* Where Spark routes a row: the remainder of the signed hash that is not  *)
(* negative, or the number of bounds that are not above the key.           *)
Route(sch, key) ==
    CASE sch = "hash"   -> Signed(key) % NumPartitions
      [] sch = "range"  -> Cardinality({i \in DOMAIN Bounds : Bounds[i] <= key})
      [] sch = "single" -> 0

AllPartitions == 0 .. NumPartitions - 1

Abstract == INSTANCE MapOutput WITH
    Partitions <- AllPartitions,
    status <- IF pc \in {"committed", "failed"} THEN pc ELSE "writing",
    output <- [p \in AllPartitions |->
                  IF pc = "committed" /\ p \in Partitions THEN DecodeAll(Segment(p)) ELSE <<>>]

(* The writer implements MapOutput: whatever is spilled and however the    *)
(* rows are cut into batches, the committed lengths and data file decode   *)
(* to exactly the rows routed to each partition, in input order; a failed  *)
(* write commits nothing.                                                  *)
ImplementsMapOutput == Abstract!Spec

(* The reservation follows the buffer: between batches the writer has      *)
(* reserved exactly the memory it holds, since a refused try_grow is       *)
(* followed by a spill of everything and only then is the reservation      *)
(* freed.  Once the plan is closed nothing of Spark's memory is still      *)
(* granted: the pool's Drop finds nothing used, and the task nothing       *)
(* leaked.                                                                 *)
MemoryReturned ==
    /\ pc \in {"input", "insert"} /\ scheme # "single" =>
           size[Writer] = Len(FlattenSeq(buffered))
    /\ pc \in {"commit", "committed"} => granted = 0

=============================================================================

------------------------------ MODULE ScanInput ------------------------------
(***************************************************************************)
(* The input of a native plan.  executePlan pulls batches from the JVM     *)
(* into the slot of each ScanExec and polls the operators above them until *)
(* one batch of output is ready.  A batch is exported by CometBatchIterator*)
(* over Arrow's C interface: native code sees the JVM's memory, which some *)
(* sources use again for their next batch.                                 *)
(*                                                                         *)
(* The operators are Comet's own ScanExec, CopyExec and ExpandExec, and    *)
(* two of DataFusion that keep batches: SortExec and HashJoinExec.         *)
(***************************************************************************)
EXTENDS ArrowArrays

CONSTANTS Plans,      \* an operator, its projections and the sources of its scans
          MayFail     \* whether a call of the JVM may throw

VARIABLES conf,       \* the plan that runs
          jvm,        \* CometBatchIterator of each scan: batches read, current batch
          heap,       \* the JVM's buffers of each source
          slot,       \* ScanExec.batch
          schema,     \* ScanExec.schema
          stream,     \* state of the operators above the scans
          pc,
          at,         \* the scan that is being created or pulled
          output,     \* the rows returned to Spark
          reason      \* why executePlan threw

vars == <<conf, jvm, heap, slot, schema, stream, pc, at, output, reason>>

Scans == DOMAIN conf.sources
Source(s) == conf.sources[s]

-----------------------------------------------------------------------------
(* CometBatchIterator; its previousBatch only keeps a batch from the       *)
(* garbage collector                                                       *)

hasNext(it, batches) ==
    LET read == it.current = 0 /\ it.pos < Len(batches)
    IN  [it EXCEPT !.pos = IF read THEN @ + 1 ELSE @,
                   !.current = IF read THEN it.pos + 1 ELSE @]

next(it) == [it EXCEPT !.current = 0]

hasSelectionVectors(b) == \A c \in DOMAIN b.cols : b.cols[c].selection # <<>>

\* NativeUtil.exportBatch: the number of rows, on which all columns agree
exportBatch(b) ==
    IF b.cols = <<>> THEN b.rows
    ELSE IF b.cols[1].selection # <<>> THEN Len(b.cols[1].selection[1])
    ELSE Len(b.cols[1].keys)

\* A source that gives its batches away has a new buffer for each of them;
\* one that does not may use the same buffer again
Buffer(s, k) == IF Source(s).arrow_ffi_safe THEN k ELSE 1

\* The JVM's memory after it has read batch k
Loaded(s, k) ==
    LET cols == Source(s).batches[k].cols
    IN  [heap EXCEPT ![s][Buffer(s, k)] =
            [c \in DOMAIN cols |-> [keys |-> cols[c].keys, nulls |-> cols[c].nulls,
                                    dict |-> cols[c].dict]]]

-----------------------------------------------------------------------------
(* operators/scan.rs *)

unpack_dictionary_type(dt) == IF dt.dict /\ dt.value # "Utf8" THEN Type(dt.value, FALSE) ELSE dt

NoBatch == [k |-> "none"]
EOF == [k |-> "EOF"]
Batch(columns, num_rows) == [k |-> "Batch", columns |-> columns, num_rows |-> num_rows]

scan_schema(input, data_types) ==
    IF input.k = "Batch"
    THEN [i \in DOMAIN input.columns |-> unpack_dictionary_type(input.columns[i].type)]
    ELSE [i \in DOMAIN data_types |-> Type(data_types[i], FALSE)]

\* ArrayData::from_spark: the array in the memory of the JVM
from_spark(s, k, i) ==
    LET col == Source(s).batches[k].cols[i]
        part(p) == OfJvm(<<s, Buffer(s, k), i, p>>)
    IN  [type |-> Type(Source(s).data_types[i], col.dict # <<>>), len |-> Len(col.keys),
         keys |-> part("keys"), nulls |-> part("nulls"), dict |-> part("dict")]

(* Mutant: the JVM's memory is kept, whoever owns it. *)
get_next_keeps_memory(h, s, k) ==
    LET b == Source(s).batches[k]
        array(i) == IF hasSelectionVectors(b)
                    THEN take(h, from_spark(s, k, i), b.cols[i].selection[1])
                    ELSE from_spark(s, k, i)
    IN  Batch([i \in DOMAIN b.cols |-> array(i)], exportBatch(b))

get_next(h, s, k) ==
    LET b == Source(s).batches[k]
        selected(i) == IF hasSelectionVectors(b)
                       THEN take(h, from_spark(s, k, i), b.cols[i].selection[1])
                       ELSE from_spark(s, k, i)
        array(i) == IF Source(s).arrow_ffi_safe THEN selected(i) ELSE copy_array(h, selected(i))
        num_rows == IF hasSelectionVectors(b) /\ b.cols # <<>>
                    THEN Len(b.cols[1].selection[1])
                    ELSE exportBatch(b)
    IN  Batch([i \in DOMAIN b.cols |-> array(i)], num_rows)

\* get_next of scan s, into its slot
Fetch(s) ==
    LET it == hasNext(jvm[s], Source(s).batches)
        h == Loaded(s, it.current)
    IN  IF it.current = 0
        THEN /\ jvm' = [jvm EXCEPT ![s] = it]
             /\ slot' = [slot EXCEPT ![s] = EOF]
             /\ UNCHANGED heap
        ELSE /\ jvm' = [jvm EXCEPT ![s] = next(it)]
             /\ heap' = h
             /\ slot' = [slot EXCEPT ![s] = get_next(h, s, it.current)]

build_record_batch(s, columns, num_rows) ==
    try_new(schema[s],
            [i \in DOMAIN columns |->
                IF columns[i].type # schema[s][i]
                THEN cast_with_options(heap, columns[i], schema[s][i]) ELSE columns[i]],
            num_rows)

Ready(k, batch) == [k |-> k, batch |-> batch]

\* ScanStream::poll_next; every result but Pending leaves the slot empty
poll_scan(s) ==
    CASE slot[s].k = "none"  -> Ready("Pending", <<>>)
      [] slot[s].k = "EOF"   -> Ready("None", <<>>)
      [] slot[s].k = "Batch" ->
           Ready("Some", build_record_batch(s, slot[s].columns, slot[s].num_rows))

\* CopyStream::poll_next over a scan
poll_copy(s) ==
    LET r == poll_scan(s)
    IN  IF r.k = "Some" /\ r.batch # <<>>
        THEN Ready("Some", copy(heap, schema[s], r.batch[1], "UnpackOrClone")) ELSE r

Taken(s) == slot' = [slot EXCEPT ![s] = NoBatch]

\* What DataFusion's operators compute: the order of the first column, and
\* the pairs of rows whose first columns are equal and not null
Sorted(rows) == SortSeq(rows, LAMBDA a, b : a[1] < b[1])

Joined(build, probe) ==
    FlattenSeq([i \in DOMAIN probe |->
        LET matching == SelectSeq(build, LAMBDA r : r[1] = probe[i][1] /\ r[1] # 0)
        IN  [j \in DOMAIN matching |-> matching[j] \o probe[i]]])

-----------------------------------------------------------------------------
(* The arms of create_plan: what the operator polls *)

wrap_in_copy_exec(s) == poll_copy(s)

ExpandInput(s) == poll_scan(s)
SortInput(s) == wrap_in_copy_exec(s)
HashJoinInput(s) == wrap_in_copy_exec(s)

poll_child(s) ==
    CASE conf.op = "Scan"     -> poll_scan(s)
      [] conf.op = "Expand"   -> ExpandInput(s)
      [] conf.op = "Sort"     -> SortInput(s)
      [] conf.op = "HashJoin" -> HashJoinInput(s)

Init ==
    /\ conf \in Plans
    /\ jvm = [s \in Scans |-> [pos |-> 0, current |-> 0]]
    /\ heap = [s \in Scans |-> [k \in DOMAIN Source(s).batches |-> <<>>]]
    /\ slot = [s \in Scans |-> NoBatch]
    /\ schema = <<>>
    /\ stream = [phase |-> "input", kept |-> <<>>, index |-> 0]
    /\ pc = "idle"
    /\ at = 0
    /\ output = <<>>
    /\ reason = "none"

Throw(why) ==
    /\ pc' = "failed"
    /\ reason' = why
    /\ UNCHANGED <<stream, at, output>>

-----------------------------------------------------------------------------
(* executePlan: the plan is created by the first call, pulled by the others *)

ExecutePlan ==
    /\ pc = "idle"
    /\ pc' = IF schema = <<>> THEN "create" ELSE "pull"
    /\ at' = 1
    /\ UNCHANGED <<conf, jvm, heap, slot, schema, stream, output, reason>>

AfterScan(then) ==
    /\ pc' = IF at = Len(conf.sources) THEN "poll" ELSE then
    /\ at' = IF at = Len(conf.sources) THEN 0 ELSE at + 1

\* ScanExec::new reads the first batch, which decides on the schema
CreateScan ==
    /\ pc = "create"
    /\ Fetch(at)
    /\ schema' = Append(schema, scan_schema(slot'[at], Source(at).data_types))
    /\ AfterScan("create")
    /\ UNCHANGED <<conf, stream, output, reason>>

(* Mutant: the first scan only is pulled. *)
PullFirst ==
    /\ pc = "pull"
    /\ IF slot[at] = NoBatch /\ at = 1 THEN Fetch(at) ELSE UNCHANGED <<jvm, heap, slot>>
    /\ AfterScan("pull")
    /\ UNCHANGED <<conf, schema, stream, output, reason>>

\* pull_input_batches, one scan after the other
PullInput ==
    /\ pc = "pull"
    /\ IF slot[at] = NoBatch THEN Fetch(at) ELSE UNCHANGED <<jvm, heap, slot>>
    /\ AfterScan("pull")
    /\ UNCHANGED <<conf, schema, stream, output, reason>>

\* hasNext or next of the JVM throws
FetchThrows ==
    /\ MayFail
    /\ pc = "create" \/ (pc = "pull" /\ slot[at] = NoBatch)
    /\ Throw("input")
    /\ UNCHANGED <<conf, jvm, heap, slot, schema>>

-----------------------------------------------------------------------------
(* The loop of executePlan polls the stream *)

Continue(s) == pc' = "poll" /\ stream' = s /\ UNCHANGED <<at, output, reason>>

Return(s, rows) ==
    /\ pc' = "idle"
    /\ stream' = s
    /\ output' = output \o rows
    /\ UNCHANGED <<at, reason>>

ReturnEOF == pc' = "EOF" /\ UNCHANGED <<stream, at, output, reason>>

\* Poll::Pending: pull the inputs and poll again
PullAndContinue == pc' = "pull" /\ at' = 1 /\ UNCHANGED <<stream, output, reason>>

\* The batch of a child that is ready
Polled(s) == poll_child(s).batch[1]

\* An operator polls its child s and goes on with what it got
PollChild(s, onBatch, onEnd) ==
    LET r == poll_child(s)
    IN  \/ r.k = "Pending" /\ PullAndContinue /\ UNCHANGED slot
        \/ r.k = "None" /\ onEnd /\ Taken(s)
        \/ r.k = "Some" /\ r.batch = <<>> /\ Throw("schema") /\ Taken(s)
        \/ r.k = "Some" /\ r.batch # <<>> /\ onBatch /\ Taken(s)

PollScan ==
    /\ conf.op = "Scan" /\ pc = "poll"
    /\ PollChild(1, Return(stream, Rows(heap, Polled(1))), ReturnEOF)
    /\ UNCHANGED <<conf, jvm, heap, schema>>

\* ExpandStream::expand: a projection is columns of the input, or 0 for a literal null
expand(batch, projection) ==
    [r \in 1 .. batch.num_rows |->
        [j \in DOMAIN projection |->
            IF projection[j] = 0 THEN 0 ELSE Rows(heap, batch)[r][projection[j]]]]

ExpandBatch(batch, i) ==
    LET last == i = Len(conf.projections)
    IN  Return([stream EXCEPT !.kept = IF last THEN <<>> ELSE <<batch>>,
                              !.index = IF last THEN 0 ELSE i + 1],
               expand(batch, conf.projections[i]))

\* ExpandStream::poll_next keeps its batch until every projection is returned
PollExpand ==
    /\ conf.op = "Expand" /\ pc = "poll"
    /\ IF stream.index = 0
       THEN PollChild(1, ExpandBatch(Polled(1), 1), ReturnEOF)
       ELSE ExpandBatch(stream.kept[1], stream.index) /\ UNCHANGED slot
    /\ UNCHANGED <<conf, jvm, heap, schema>>

Keep(b) == Continue([stream EXCEPT !.kept = Append(@, b)])
InputDone == Continue([stream EXCEPT !.phase = "output"])

KeptRows == FlattenSeq([k \in DOMAIN stream.kept |-> Rows(heap, stream.kept[k])])

\* DataFusion's SortExec reads all of its input, then returns it sorted
PollSort ==
    /\ conf.op = "Sort" /\ pc = "poll"
    /\ IF stream.phase = "input" THEN PollChild(1, Keep(Polled(1)), InputDone)
       ELSE /\ IF stream.kept = <<>> THEN ReturnEOF
               ELSE Return([stream EXCEPT !.kept = <<>>], Sorted(KeptRows))
            /\ UNCHANGED slot
    /\ UNCHANGED <<conf, jvm, heap, schema>>

\* DataFusion's HashJoinExec reads its left input, then probes with the right
PollHashJoin ==
    /\ conf.op = "HashJoin" /\ pc = "poll"
    /\ IF stream.phase = "input" THEN PollChild(1, Keep(Polled(1)), InputDone)
       ELSE PollChild(2, Return(stream, Joined(KeptRows, Rows(heap, Polled(2)))), ReturnEOF)
    /\ UNCHANGED <<conf, jvm, heap, schema>>

\* The consumer needs no more rows
Close ==
    /\ pc = "idle"
    /\ pc' = "closed"
    /\ UNCHANGED <<conf, jvm, heap, slot, schema, stream, at, output, reason>>

Ended == pc \in {"EOF", "closed", "failed"}

Next ==
    \/ ExecutePlan \/ CreateScan \/ PullInput \/ FetchThrows
    \/ PollScan \/ PollExpand \/ PollSort \/ PollHashJoin
    \/ Close
    \/ Ended /\ UNCHANGED vars

\* A task's thread keeps running: the consumer asks again or closes the plan
Spec == Init /\ [][Next]_vars /\ WF_vars(Next)

-----------------------------------------------------------------------------
(* Properties *)

\* The rows of batch k of source s, as Spark has them
SparkRows(s, k) ==
    LET b == Source(s).batches[k]
        position(col, r) == IF col.selection = <<>> THEN r ELSE col.selection[1][r]
        value(col, i) == IF col.nulls[i] = 0 THEN 0
                         ELSE IF col.dict = <<>> THEN col.keys[i] ELSE col.dict[col.keys[i]]
    IN  [r \in 1 .. b.rows |->
            [c \in DOMAIN b.cols |-> value(b.cols[c], position(b.cols[c], r))]]

AllRows(s) == FlattenSeq([k \in DOMAIN Source(s).batches |-> SparkRows(s, k)])

Projected(rows, p) ==
    [r \in DOMAIN rows |-> [j \in DOMAIN p |-> IF p[j] = 0 THEN 0 ELSE rows[r][p[j]]]]

Expected ==
    CASE conf.op = "Scan" -> AllRows(1)
      [] conf.op = "Expand" ->
           FlattenSeq([k \in DOMAIN Source(1).batches |->
               FlattenSeq([i \in DOMAIN conf.projections |->
                   Projected(SparkRows(1, k), conf.projections[i])])])
      [] conf.op = "Sort" -> Sorted(AllRows(1))
      [] conf.op = "HashJoin" -> Joined(AllRows(1), AllRows(2))

\* What executePlan returns is what the operator makes of the rows Spark put
\* in, each row once and with the values it had when the JVM handed it over:
\* a batch that ExpandExec, SortExec or HashJoinExec keeps while later batches
\* are pulled never shows the memory the JVM has used again ("the native code
\* must not retain references to the batch", CometBatchIterator), and a
\* column that comes with and without a dictionary keeps its values.
OutputIsExact ==
    /\ IsPrefix(output, Expected)
    /\ pc = "EOF" => output = Expected

\* Every plan ends, at the end of its output, by the consumer or because the
\* input failed: a scan that is Pending has its slot filled before the next
\* poll (pull_input_batches), also when another scan still has its batch, and
\* every batch can be cast to the schema of the first (build_record_batch).
EveryPlanEnds ==
    <>(pc \in {"EOF", "closed"} \/ (pc = "failed" /\ reason = "input"))

=============================================================================

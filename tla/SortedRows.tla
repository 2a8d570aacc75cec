------------------------------ MODULE SortedRows ------------------------------
(***************************************************************************)
(* process_sorted_row_partition: the rows of one partition, at the         *)
(* addresses the JVM passes, become record batches of at most batch_size   *)
(* rows, appended to the spill or data file one block after the other.     *)
(* Rows are read column by column, row_step of them at a time.             *)
(*                                                                         *)
(* The JVM plans the columnar shuffle only for the types it believes the   *)
(* native side can build (columnarShuffleSupported); nothing but that rule *)
(* keeps a type without an arm away from this code.                        *)
(***************************************************************************)
EXTENDS RowBuilders, SparkEncoding

CONSTANTS Cases,           \* the partitions: a schema and the values of its rows
          Ratios,          \* prefer_dictionary_ratio, in tenths
          BatchSize,
          RowStep          \* row_step: 10 in the code

VARIABLES input,           \* schema, values, encoded rows, ratio
          pc, current_row, row_start, data_builders,
          file,            \* the blocks in the output file
          result

rowVars == <<input, pc, current_row, row_start, data_builders, file, result>>

(* The rule without the cases that refuse a struct in a map                *)
RECURSIVE AllowsStructInMap(_)
AllowsStructInMap(dt) ==
    CASE dt.t \in Scalars -> TRUE
      [] dt.t = "Struct" ->
            /\ \A i \in DOMAIN dt.fields : AllowsStructInMap(dt.fields[i])
            /\ IsInjective(dt.names)
            /\ dt.fields # <<>>
      [] dt.t = "List" -> dt.elem.t \notin {"List", "Map"} /\ AllowsStructInMap(dt.elem)
      [] dt.t = "Map" ->
            /\ {dt.key.t, dt.value.t} \intersect {"Map", "List"} = {}
            /\ AllowsStructInMap(dt.key) /\ AllowsStructInMap(dt.value)
      [] OTHER -> FALSE

(* The JVM's rule, over Spark's types, which map one to one to Arrow's     *)
RECURSIVE supportedSerializableDataType(_)
supportedSerializableDataType(dt) ==
    CASE dt.t \in Scalars -> TRUE
      [] dt.t = "Struct" ->
            /\ \A i \in DOMAIN dt.fields : supportedSerializableDataType(dt.fields[i])
            /\ IsInjective(dt.names)
            /\ dt.fields # <<>>
      [] dt.t = "List" ->
            /\ dt.elem.t \notin {"List", "Map"}
            /\ supportedSerializableDataType(dt.elem)
      [] dt.t = "Map" ->
            /\ {dt.key.t, dt.value.t} \intersect {"Map", "Struct", "List"} = {}
            /\ supportedSerializableDataType(dt.key) /\ supportedSerializableDataType(dt.value)
      [] OTHER -> FALSE

row_num == Len(input.vals)
n == IF BatchSize < row_num - current_row THEN BatchSize ELSE row_num - current_row

RowInit ==
    /\ input \in {[schema |-> c.schema, vals |-> c.vals, ratio |-> r,
                   rows |-> [i \in DOMAIN c.vals |->
                                EncodedRow(c.schema, c.vals[i], 1000 * i)]] :
                  c \in {c \in Cases : \A i \in DOMAIN c.schema :
                             supportedSerializableDataType(c.schema[i])},
                  r \in Ratios}
    /\ pc = "batch" /\ current_row = 0 /\ row_start = 0
    /\ data_builders = <<>> /\ file = <<>> /\ result = "running"

(* The head of the outer loop: builders for the next n rows, or the end    *)
NextBatch ==
    /\ pc = "batch" /\ current_row < row_num
    /\ data_builders' = [i \in DOMAIN input.schema |-> make_builders(input.schema[i], input.ratio)]
    /\ row_start' = current_row
    /\ IF Err \in Range(data_builders')
       THEN pc' = "done" /\ result' = "Err"
       ELSE pc' = "append" /\ UNCHANGED result
    /\ UNCHANGED <<input, current_row, file>>

Return ==
    /\ pc = "batch" /\ current_row >= row_num
    /\ pc' = "done" /\ result' = "Ok"
    /\ UNCHANGED <<input, current_row, row_start, data_builders, file>>

(* One turn of the inner loop: every column, row_step rows                 *)
row_end == IF row_start + RowStep < current_row + n THEN row_start + RowStep ELSE current_row + n

AppendStep ==
    /\ pc = "append" /\ row_start < current_row + n
    /\ data_builders' = [i \in DOMAIN data_builders |->
                            append_columns(input.rows, row_start, row_end, input.schema,
                                           i - 1, data_builders[i], input.ratio)]
    /\ row_start' = row_end
    /\ IF \E i \in DOMAIN data_builders' : Failed(data_builders'[i])
       THEN pc' = "done" /\ result' = "panic" ELSE UNCHANGED <<pc, result>>
    /\ UNCHANGED <<input, current_row, file>>

(* The batch is encoded and appended to the file, which may fail.          *)
WriteBatch ==
    /\ pc = "append" /\ row_start >= current_row + n
    /\ LET batch == [i \in DOMAIN data_builders |->
                        builder_to_array(data_builders[i], input.schema[i], input.ratio)]
       IN  file' = Append(file, batch)
    /\ current_row' = current_row + n /\ pc' = "batch"
    /\ UNCHANGED <<input, row_start, data_builders, result>>

WriteFails ==
    /\ pc = "append" /\ row_start >= current_row + n
    /\ pc' = "done" /\ result' = "io error"
    /\ UNCHANGED <<input, current_row, row_start, data_builders, file>>

RowNext == NextBatch \/ Return \/ AppendStep \/ WriteBatch \/ WriteFails

RowSpec == RowInit /\ [][RowNext]_rowVars

-----------------------------------------------------------------------------

(* Whatever type the planner lets through (CometExecRule), the native side *)
(* has a builder for it, and each of the downcasts on the way from         *)
(* make_builders through append_columns, append_field, append_list_element *)
(* and append_map_elements finds the builder that was made.                *)
SupportedTypesAreBuilt == result \notin {"Err", "panic"}

(* The values Arrow sees in the blocks of the file are those of the rows,  *)
(* each row once and in order: null words, slot widths, nested offsets,    *)
(* sign extension of decimals and dictionaries included.                   *)
RowsSurvive ==
    LET Rows(batch) == [i \in 1..Len(batch[1].vals) |->
                           [c \in DOMAIN batch |-> ValueAt(batch[c], i)]]
        All == FoldLeft(LAMBDA s, batch : s \o Rows(batch), <<>>, file)
    IN  /\ All = SubSeq(input.vals, 1, current_row)
        /\ result = "Ok" => All = input.vals

(* Between two turns every column holds exactly the rows read, and every   *)
(* nested builder is as long as its parent says, whatever was null: what   *)
(* Arrow's finish() panics on.                                             *)
BuildersStayAligned ==
    pc = "append" =>
        \A i \in DOMAIN data_builders :
            /\ Len(data_builders[i].vals) = row_start - current_row
            /\ Aligned(data_builders[i])
=============================================================================

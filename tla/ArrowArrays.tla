----------------------------- MODULE ArrowArrays -----------------------------
(***************************************************************************)
(* The Arrow arrays that pass from the JVM to a native plan, as far as     *)
(* their memory matters: an array is a type, the memory of its keys (or    *)
(* values), of its dictionary and of its validity bits.  Memory belongs to *)
(* native code and never changes, or it belongs to the JVM, which may      *)
(* overwrite it when the next batch is read.                               *)
(*                                                                         *)
(* heap maps the source and the buffer of each JVM column to the contents  *)
(* it has now.  A value is a positive number, 0 stands for null.           *)
(***************************************************************************)
EXTENDS Integers, Sequences, SequencesExt, FiniteSets, TLC

Type(value, dict) == [value |-> value, dict |-> dict]

Native(contents) == [at |-> <<>>, contents |-> contents]
OfJvm(address) == [at |-> address, contents |-> <<>>]

Read(heap, m) == IF m.at = <<>> THEN m.contents ELSE heap[m.at[1]][m.at[2]][m.at[3]][m.at[4]]

\* What lies beyond the end of a buffer
Garbage == -1
At(s, i) == IF i \in DOMAIN s THEN s[i] ELSE Garbage

\* The logical values of an array
Values(heap, a) ==
    LET keys == Read(heap, a.keys)
        valid == Read(heap, a.nulls)
        dict == Read(heap, a.dict)
    IN  [i \in 1 .. a.len |->
            IF At(valid, i) # 1 THEN 0
            ELSE IF a.type.dict THEN At(dict, At(keys, i)) ELSE At(keys, i)]

-----------------------------------------------------------------------------
(* Arrow kernels *)

\* The array at the given positions; a dictionary is shared with the input
take(heap, a, indices) ==
    [a EXCEPT !.len = Len(indices),
              !.keys = Native([i \in DOMAIN indices |-> At(Read(heap, a.keys), indices[i])]),
              !.nulls = Native([i \in DOMAIN indices |-> At(Read(heap, a.nulls), indices[i])])]

\* Unpacking a dictionary may keep the validity bits of its keys
cast_with_options(heap, a, type) ==
    LET values == Values(heap, a)
    IN  IF type.dict
        THEN [a EXCEPT !.type = type, !.keys = Native([i \in DOMAIN values |-> i]),
                       !.dict = Native(values)]
        ELSE [a EXCEPT !.type = type, !.keys = Native(values), !.dict = Native(<<>>)]

-----------------------------------------------------------------------------
(* operators/copy.rs *)

copy_array(heap, a) ==
    [a EXCEPT !.keys = Native(Read(heap, a.keys)),
              !.nulls = Native(Read(heap, a.nulls)),
              !.dict = IF a.type.dict THEN Native(Read(heap, a.dict)) ELSE @]

copy_or_unpack_array(heap, a, mode) ==
    IF a.type.dict
    THEN copy_array(heap, cast_with_options(heap, a, Type(a.type.value, FALSE)))
    ELSE IF mode = "UnpackOrDeepCopy" THEN copy_array(heap, a) ELSE a

\* CopyExec::new: the schema of its output
copy_schema(schema) == [i \in DOMAIN schema |-> Type(schema[i].value, FALSE)]

-----------------------------------------------------------------------------
(* Record batches: columns and a number of rows *)

\* RecordBatch::try_new_with_options; an error is an empty sequence
try_new(schema, columns, num_rows) ==
    IF /\ Len(columns) = Len(schema)
       /\ \A i \in DOMAIN columns : columns[i].type = schema[i] /\ columns[i].len = num_rows
    THEN <<[columns |-> columns, num_rows |-> num_rows]>>
    ELSE <<>>

copy(heap, schema, batch, mode) ==
    try_new(copy_schema(schema),
            [i \in DOMAIN batch.columns |-> copy_or_unpack_array(heap, batch.columns[i], mode)],
            batch.num_rows)

Rows(heap, batch) ==
    LET values == [c \in DOMAIN batch.columns |-> Values(heap, batch.columns[c])]
    IN  [r \in 1 .. batch.num_rows |-> [c \in DOMAIN batch.columns |-> values[c][r]]]

=============================================================================

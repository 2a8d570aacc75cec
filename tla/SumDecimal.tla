----------------------------- MODULE SumDecimal -----------------------------
(***************************************************************************)
(* sum_decimal.rs: the SUM of decimals, once as the Accumulator of an      *)
(* aggregation without grouping keys and once as the GroupsAccumulator of  *)
(* a grouped one.  `u` is the function with the precision of its result.   *)
(***************************************************************************)
EXTENDS AggregateBuffers

\* SumDecimalAccumulator
accumulator == [sum |-> 0, is_empty |-> TRUE, is_not_null |-> TRUE]

update_single(u, acc, v) ==
    LET new_sum == overflowing_add(acc.sum, v)
    IN  IF new_sum.overflow \/ ~is_valid_decimal_precision(new_sum.value, u.precision)
          THEN [acc EXCEPT !.is_not_null = FALSE]
          ELSE [acc EXCEPT !.sum = new_sum.value, !.is_not_null = TRUE]

update_batch(u, acc, values) ==
    IF ~acc.is_empty /\ ~acc.is_not_null
      THEN acc
      ELSE FoldLeft(LAMBDA a, v : update_single(u, a, v),
                    [acc EXCEPT !.is_empty = @ /\ AllNull(values)],
                    NonNull(values))

state(acc) ==
    [sum |-> IF acc.is_not_null THEN <<acc.sum>> ELSE <<>>, is_empty |-> acc.is_empty]

\* Asserts that the batch holds one partial state.  A null sum of an empty
\* state cannot occur: value(0) is read only when it is present.
merge_batch(acc, states) ==
    LET that == states[1]
        this_overflow == ~acc.is_empty /\ ~acc.is_not_null
        that_overflow == ~that.is_empty /\ that.sum = <<>>
        is_not_null == ~this_overflow /\ ~that_overflow
    IN  [sum |-> IF is_not_null THEN Wrap(acc.sum + that.sum[1]) ELSE acc.sum,
         is_empty |-> acc.is_empty /\ that.is_empty,
         is_not_null |-> is_not_null]

evaluate(u, acc) ==
    IF acc.is_empty \/ ~acc.is_not_null \/ ~is_valid_decimal_precision(acc.sum, u.precision)
      THEN <<>> ELSE <<acc.sum>>

-----------------------------------------------------------------------------
\* SumDecimalGroupsAccumulator
create_groups_accumulator == [sum |-> <<>>, is_empty |-> <<>>, is_not_null |-> <<>>]

is_overflow(g, index) == ~g.is_empty[index] /\ ~g.is_not_null[index]

groups_update_single(u, g, group_index, value) ==
    LET new_sum == overflowing_add(g.sum[group_index], value)
        bad == new_sum.overflow \/ ~is_valid_decimal_precision(new_sum.value, u.precision)
    IN  [g EXCEPT !.is_empty[group_index] = FALSE,
                  !.sum[group_index] = new_sum.value,
                  !.is_not_null[group_index] = @ /\ ~bad]

WithCapacity(g, n) == [sum |-> resize(g.sum, n, 0),
                       is_empty |-> ensure_bit_capacity(g.is_empty, n),
                       is_not_null |-> ensure_bit_capacity(g.is_not_null, n)]

groups_update_batch(u, g, values, group_indices, total_num_groups) ==
    FoldLeft(LAMBDA a, i : IF values[i] = <<>> THEN a
                           ELSE groups_update_single(u, a, group_indices[i], values[i][1]),
             WithCapacity(g, total_num_groups), [i \in DOMAIN values |-> i])

\* The variant that combines the flags with the sum whatever the partial sum says.
MergesNullSums(g, states, group_indices, total_num_groups) ==
    FoldLeft(LAMBDA a, i :
               [a EXCEPT !.is_empty[group_indices[i]] = @ /\ states[i].is_empty,
                         !.sum[group_indices[i]] =
                             IF states[i].sum = <<>> THEN @ ELSE Wrap(@ + states[i].sum[1])],
             WithCapacity(g, total_num_groups), [i \in DOMAIN states |-> i])

groups_merge_batch(g, states, group_indices, total_num_groups) ==
    LET MergeOne(a, i) ==
            LET group_index == group_indices[i]
                that == states[i]
                overflow == is_overflow(a, group_index) \/ (~that.is_empty /\ that.sum = <<>>)
            IN  [a EXCEPT !.is_not_null[group_index] = ~overflow,
                          !.is_empty[group_index] = @ /\ that.is_empty,
                          !.sum[group_index] = IF overflow THEN @ ELSE Wrap(@ + that.sum[1])]
    IN  FoldLeft(MergeOne, WithCapacity(g, total_num_groups), [i \in DOMAIN states |-> i])

\* What is left of the buffers once `emit` groups are taken from each
groups_rest(g, emit) == [sum |-> left_behind(g.sum, emit),
                         is_empty |-> build_bool_state(g.is_empty, emit).state,
                         is_not_null |-> build_bool_state(g.is_not_null, emit).state]

groups_state(g, emit) ==
    LET sum == take_needed(g.sum, emit)
        nulls == build_bool_state(g.is_not_null, emit).taken
        is_empty == build_bool_state(g.is_empty, emit).taken
    IN  [i \in DOMAIN sum |-> [sum |-> IF nulls[i] THEN <<sum[i]>> ELSE <<>>,
                               is_empty |-> is_empty[i]]]

groups_evaluate(u, g, emit) ==
    LET result == take_needed(g.sum, emit)
        nulls == build_bool_state(g.is_not_null, emit).taken
        is_empty == build_bool_state(g.is_empty, emit).taken
        valid(i) == /\ ~is_empty[i] /\ nulls[i]
                    /\ is_valid_decimal_precision(result[i], u.precision)
    IN  [i \in DOMAIN result |-> IF valid(i) THEN <<result[i]>> ELSE <<>>]

=============================================================================

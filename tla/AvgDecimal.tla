----------------------------- MODULE AvgDecimal -----------------------------
(***************************************************************************)
(* avg_decimal.rs: the AVG of decimals.  `u` is the function with the      *)
(* precision of its sum, the precision `target` of its result and the      *)
(* power of ten `scaler` between their scales.                             *)
(***************************************************************************)
EXTENDS AggregateBuffers

\* i128::div_rem truncates towards zero
TruncatedDiv(a, b) == IF a >= 0 THEN a \div b ELSE -((-a) \div b)

\* The variant that halves the count downwards.
RoundsEarly(u, sum, count) ==
    LET value == sum * u.scaler
        div == TruncatedDiv(value, count)
        rem == value - div * count
        half == count \div 2
        new_value == IF value >= 0 THEN IF rem >= half THEN div + 1 ELSE div
                                   ELSE IF rem <= -half THEN div - 1 ELSE div
    IN  IF FitsI128(value) /\ new_value \in -u.target .. u.target THEN <<new_value>> ELSE <<>>

avg(u, sum, count) ==
    LET value == sum * u.scaler
        div == TruncatedDiv(value, count)
        rem == value - div * count
        half == (count + 1) \div 2
        new_value == IF value >= 0 THEN IF rem >= half THEN Wrap(div + 1) ELSE div
                                   ELSE IF rem <= -half THEN Wrap(div - 1) ELSE div
    IN  IF FitsI128(value) /\ new_value \in -u.target .. u.target THEN <<new_value>> ELSE <<>>

-----------------------------------------------------------------------------
\* AvgDecimalAccumulator.  Its count is an i64 and stays far below its limit.
accumulator == [sum |-> <<>>, count |-> 0, is_empty |-> TRUE, is_not_null |-> TRUE]

update_single(u, acc, v) ==
    LET new_sum == IF acc.sum = <<>> THEN [value |-> v, overflow |-> FALSE]
                   ELSE overflowing_add(acc.sum[1], v)
    IN  IF new_sum.overflow \/ ~is_valid_decimal_precision(new_sum.value, u.precision)
          THEN [acc EXCEPT !.is_not_null = FALSE]
          ELSE [acc EXCEPT !.sum = <<new_sum.value>>, !.count = @ + 1, !.is_not_null = TRUE]

update_batch(u, acc, values) ==
    IF ~acc.is_empty /\ ~acc.is_not_null
      THEN acc
      ELSE FoldLeft(LAMBDA a, v : update_single(u, a, v),
                    [acc EXCEPT !.is_empty = @ /\ AllNull(values)],
                    NonNull(values))

state(acc) == [sum |-> acc.sum, count |-> acc.count]

merge_batch(acc, states) ==
    LET sums == NonNull([i \in DOMAIN states |-> states[i].sum])
        result == overflowing_add(IF acc.sum = <<>> THEN 0 ELSE acc.sum[1], Wrap(SumOf(sums)))
    IN  [acc EXCEPT !.count = @ + SumOf([i \in DOMAIN states |-> states[i].count]),
                    !.sum = IF sums = <<>> THEN @
                            ELSE IF result.overflow THEN <<>> ELSE <<result.value>>]

evaluate(u, acc) == IF acc.sum = <<>> THEN <<>> ELSE avg(u, acc.sum[1], acc.count)

-----------------------------------------------------------------------------
\* AvgDecimalGroupsAccumulator
create_groups_accumulator == [sums |-> <<>>, counts |-> <<>>, is_not_null |-> <<>>]

groups_update_single(u, g, group_index, value) ==
    LET new_sum == overflowing_add(g.sums[group_index], value)
        bad == new_sum.overflow \/ ~is_valid_decimal_precision(new_sum.value, u.precision)
    IN  [g EXCEPT !.counts[group_index] = @ + 1,
                  !.sums[group_index] = new_sum.value,
                  !.is_not_null[group_index] = @ /\ ~bad]

WithCapacity(g, n) == [sums |-> resize(g.sums, n, 0),
                       counts |-> resize(g.counts, n, 0),
                       is_not_null |-> ensure_bit_capacity(g.is_not_null, n)]

groups_update_batch(u, g, values, group_indices, total_num_groups) ==
    FoldLeft(LAMBDA a, i : IF values[i] = <<>> THEN a
                           ELSE groups_update_single(u, a, group_indices[i], values[i][1]),
             WithCapacity(g, total_num_groups), [i \in DOMAIN values |-> i])

\* A null state keeps its sum and count in the array's values: both are
\* added, and the group becomes null.
groups_merge_batch(g, states, group_indices, total_num_groups) ==
    FoldLeft(LAMBDA a, i :
               [a EXCEPT !.counts[group_indices[i]] = @ + states[i].count,
                         !.sums[group_indices[i]] = Wrap(@ + states[i].sum),
                         !.is_not_null[group_indices[i]] = @ /\ states[i].valid],
             WithCapacity(g, total_num_groups), [i \in DOMAIN states |-> i])

groups_rest(g, emit) == [sums |-> left_behind(g.sums, emit),
                         counts |-> left_behind(g.counts, emit),
                         is_not_null |-> build_bool_state(g.is_not_null, emit).state]

\* `valid` is the null buffer the sums and counts of the state share
groups_state(g, emit) ==
    LET sums == take_needed(g.sums, emit)
        counts == take_needed(g.counts, emit)
        nulls == build_bool_state(g.is_not_null, emit).taken
    IN  [i \in DOMAIN sums |-> [sum |-> sums[i], count |-> counts[i], valid |-> nulls[i]]]

groups_evaluate(u, g, emit) ==
    LET sums == take_needed(g.sums, emit)
        counts == take_needed(g.counts, emit)
        nulls == build_bool_state(g.is_not_null, emit).taken
    IN  [i \in DOMAIN sums |-> IF nulls[i] /\ counts[i] # 0
                                 THEN avg(u, sums[i], counts[i]) ELSE <<>>]

=============================================================================

-------------------------- MODULE FloatAggregates --------------------------
(***************************************************************************)
(* avg.rs, variance.rs, stddev.rs, covariance.rs and correlation.rs: the   *)
(* aggregates over doubles.  A double is an exact fraction <<n, d>> in     *)
(* lowest terms: the algorithms are checked, rounding is left out.  NaN is *)
(* <<0, 0>>.  A square root is never taken: a standard deviation is        *)
(* represented by its square and a correlation by its signed square, both  *)
(* one-to-one with the value the code returns.                             *)
(***************************************************************************)
EXTENDS AggregateBuffers

RECURSIVE Gcd(_, _)
Gcd(a, b) == IF b = 0 THEN a ELSE Gcd(b, a % b)

AbsInt(x) == IF x < 0 THEN -x ELSE x

\* The fraction n / d in lowest terms, d positive; x / 0 is NaN
Frac(n, d) ==
    IF d = 0 THEN <<0, 0>>
    ELSE LET s == IF d < 0 THEN -1 ELSE 1
             g == Gcd(AbsInt(n), AbsInt(d))
         IN  <<(s * n) \div g, (s * d) \div g>>

Q(n) == <<n, 1>>

a ++ b == Frac(a[1] * b[2] + b[1] * a[2], a[2] * b[2])
a -- b == Frac(a[1] * b[2] - b[1] * a[2], a[2] * b[2])
a ** b == Frac(a[1] * b[1], a[2] * b[2])
a // b == Frac(a[1] * b[2], a[2] * b[1])

QSum(s) == FoldLeft(LAMBDA x, y : x ++ y, Q(0), s)

NaN == <<0, 0>>

-----------------------------------------------------------------------------
\* AvgAccumulator
avg_accumulator == [sum |-> <<>>, count |-> 0]

avg_update_batch(acc, values) ==
    LET x == NonNull(values)
    IN  [sum |-> <<(IF acc.sum = <<>> THEN Q(0) ELSE acc.sum[1]) ++ QSum(x)>>,
         count |-> acc.count + Len(x)]

avg_state(acc) == [sum |-> acc.sum, count |-> acc.count]

avg_merge_batch(acc, states) ==
    LET sums == NonNull([i \in DOMAIN states |-> states[i].sum])
    IN  [count |-> acc.count + SumOf([i \in DOMAIN states |-> states[i].count]),
         sum |-> IF sums = <<>> THEN acc.sum
                 ELSE <<(IF acc.sum = <<>> THEN Q(0) ELSE acc.sum[1]) ++ QSum(sums)>>]

avg_evaluate(acc) == IF acc.count = 0 THEN <<>> ELSE <<acc.sum[1] // Q(acc.count)>>

\* AvgGroupsAccumulator
avg_create_groups_accumulator == [sums |-> <<>>, counts |-> <<>>]

AvgWithCapacity(g, n) == [sums |-> resize(g.sums, n, Q(0)), counts |-> resize(g.counts, n, 0)]

avg_groups_update_batch(g, values, group_indices, total_num_groups) ==
    FoldLeft(LAMBDA a, i : IF values[i] = <<>> THEN a
                           ELSE [a EXCEPT !.sums[group_indices[i]] = @ ++ values[i][1],
                                          !.counts[group_indices[i]] = @ + 1],
             AvgWithCapacity(g, total_num_groups), [i \in DOMAIN values |-> i])

avg_groups_merge_batch(g, states, group_indices, total_num_groups) ==
    FoldLeft(LAMBDA a, i : [a EXCEPT !.sums[group_indices[i]] = @ ++ states[i].sum,
                                     !.counts[group_indices[i]] = @ + states[i].count],
             AvgWithCapacity(g, total_num_groups), [i \in DOMAIN states |-> i])

avg_groups_rest(g, emit) == [sums |-> left_behind(g.sums, emit),
                             counts |-> left_behind(g.counts, emit)]

avg_groups_state(g, emit) ==
    LET sums == take_needed(g.sums, emit)
        counts == take_needed(g.counts, emit)
    IN  [i \in DOMAIN sums |-> [sum |-> sums[i], count |-> counts[i]]]

avg_groups_evaluate(g, emit) ==
    LET sums == take_needed(g.sums, emit)
        counts == take_needed(g.counts, emit)
    IN  [i \in DOMAIN sums |-> IF counts[i] # 0 THEN <<sums[i] // Q(counts[i])>> ELSE <<>>]

-----------------------------------------------------------------------------
\* VarianceAccumulator, whose state is the accumulator itself
var_accumulator == [count |-> 0, mean |-> Q(0), m2 |-> Q(0)]

var_update_batch(acc, values) ==
    LET Step(a, value) ==
            LET delta1 == value -- a.mean
                new_mean == (delta1 // Q(a.count + 1)) ++ a.mean
                delta2 == value -- new_mean
            IN  [count |-> a.count + 1, mean |-> new_mean, m2 |-> a.m2 ++ (delta1 ** delta2)]
    IN  FoldLeft(Step, acc, NonNull(values))

\* The variant that takes the difference of the means after the mean has moved.
MovesMeanFirst(acc, states) ==
    LET Step(a, that) ==
            LET new_count == a.count + that.count
                new_mean == ((a.mean ** Q(a.count)) // Q(new_count))
                              ++ ((that.mean ** Q(that.count)) // Q(new_count))
                delta == new_mean -- that.mean
            IN  IF that.count = 0 THEN a
                ELSE [count |-> new_count, mean |-> new_mean,
                      m2 |-> a.m2 ++ that.m2
                               ++ ((delta ** delta ** Q(a.count * that.count)) // Q(new_count))]
    IN  FoldLeft(Step, acc, states)

var_merge_batch(acc, states) ==
    LET Step(a, that) ==
            LET new_count == a.count + that.count
                new_mean == ((a.mean ** Q(a.count)) // Q(new_count))
                              ++ ((that.mean ** Q(that.count)) // Q(new_count))
                delta == a.mean -- that.mean
            IN  IF that.count = 0 THEN a
                ELSE [count |-> new_count, mean |-> new_mean,
                      m2 |-> a.m2 ++ that.m2
                               ++ ((delta ** delta ** Q(a.count * that.count)) // Q(new_count))]
    IN  FoldLeft(Step, acc, states)

var_state(acc) == acc

\* `stats` is "Sample" or "Population"
var_evaluate(stats, null_on_divide_by_zero, acc) ==
    CASE acc.count = 0 -> <<>>
      [] acc.count = 1 /\ stats = "Sample" -> IF null_on_divide_by_zero THEN <<>> ELSE <<NaN>>
      [] OTHER -> <<acc.m2 // Q(IF stats = "Sample" THEN acc.count - 1 ELSE acc.count)>>

\* StddevAccumulator delegates to the variance; its result is Sqrt of it
stddev_evaluate(stats, null_on_divide_by_zero, acc) ==
    var_evaluate(stats, null_on_divide_by_zero, acc)

-----------------------------------------------------------------------------
\* CovarianceAccumulator.  A row is <<value1, value2>>, each nullable.
cov_accumulator == [count |-> 0, mean1 |-> Q(0), mean2 |-> Q(0), algo_const |-> Q(0)]

BothValid(rows) == SelectSeq(rows, LAMBDA r : r[1] # <<>> /\ r[2] # <<>>)

cov_update_batch(acc, rows) ==
    LET Step(a, r) ==
            LET delta1 == r[1][1] -- a.mean1
                new_mean1 == (delta1 // Q(a.count + 1)) ++ a.mean1
                delta2 == r[2][1] -- a.mean2
                new_mean2 == (delta2 // Q(a.count + 1)) ++ a.mean2
            IN  [count |-> a.count + 1, mean1 |-> new_mean1, mean2 |-> new_mean2,
                 algo_const |-> (delta1 ** (r[2][1] -- new_mean2)) ++ a.algo_const]
    IN  FoldLeft(Step, acc, BothValid(rows))

cov_state(acc) == acc

cov_merge_batch(acc, states) ==
    LET Step(a, that) ==
            LET new_count == a.count + that.count
                Mean(x, y) == ((x ** Q(a.count)) // Q(new_count))
                                ++ ((y ** Q(that.count)) // Q(new_count))
                delta1 == a.mean1 -- that.mean1
                delta2 == a.mean2 -- that.mean2
            IN  IF that.count = 0 THEN a
                ELSE [count |-> new_count,
                      mean1 |-> Mean(a.mean1, that.mean1), mean2 |-> Mean(a.mean2, that.mean2),
                      algo_const |-> a.algo_const ++ that.algo_const
                        ++ ((delta1 ** delta2 ** Q(a.count * that.count)) // Q(new_count))]
    IN  FoldLeft(Step, acc, states)

cov_evaluate(stats, null_on_divide_by_zero, acc) ==
    CASE acc.count = 0 -> <<>>
      [] stats = "Population" -> <<acc.algo_const // Q(acc.count)>>
      [] stats = "Sample" /\ acc.count > 1 -> <<acc.algo_const // Q(acc.count - 1)>>
      [] OTHER -> IF null_on_divide_by_zero THEN <<>> ELSE <<NaN>>

-----------------------------------------------------------------------------
\* CorrelationAccumulator
corr_accumulator == [covar |-> cov_accumulator, stddev1 |-> var_accumulator,
                     stddev2 |-> var_accumulator]

corr_update_batch(acc, rows) ==
    LET values == BothValid(rows)
    IN  IF values = <<>> THEN acc
        ELSE [covar |-> cov_update_batch(acc.covar, values),
              stddev1 |-> var_update_batch(acc.stddev1, [i \in DOMAIN values |-> values[i][1]]),
              stddev2 |-> var_update_batch(acc.stddev2, [i \in DOMAIN values |-> values[i][2]])]

corr_state(acc) ==
    [count |-> acc.covar.count, mean1 |-> acc.covar.mean1, mean2 |-> acc.covar.mean2,
     algo_const |-> acc.covar.algo_const, m2_1 |-> acc.stddev1.m2, m2_2 |-> acc.stddev2.m2]

corr_merge_batch(acc, states) ==
    LET c(s) == [count |-> s.count, mean1 |-> s.mean1, mean2 |-> s.mean2,
                 algo_const |-> s.algo_const]
        s1(s) == [count |-> s.count, mean |-> s.mean1, m2 |-> s.m2_1]
        s2(s) == [count |-> s.count, mean |-> s.mean2, m2 |-> s.m2_2]
    IN  [covar |-> cov_merge_batch(acc.covar, [i \in DOMAIN states |-> c(states[i])]),
         stddev1 |-> var_merge_batch(acc.stddev1, [i \in DOMAIN states |-> s1(states[i])]),
         stddev2 |-> var_merge_batch(acc.stddev2, [i \in DOMAIN states |-> s2(states[i])])]

SignedSquare(q) == IF q[1] < 0 THEN Q(0) -- (q ** q) ELSE q ** q

corr_evaluate(null_on_divide_by_zero, acc) ==
    LET covar == cov_evaluate("Population", null_on_divide_by_zero, acc.covar)
        stddev1 == stddev_evaluate("Population", null_on_divide_by_zero, acc.stddev1)
        stddev2 == stddev_evaluate("Population", null_on_divide_by_zero, acc.stddev2)
    IN  CASE covar # <<>> /\ stddev1 \notin {<<>>, <<Q(0)>>} /\ stddev2 \notin {<<>>, <<Q(0)>>}
               -> <<SignedSquare(covar[1]) // (stddev1[1] ** stddev2[1])>>
          [] OTHER -> IF ~null_on_divide_by_zero /\ acc.covar.count = 1 THEN <<NaN>> ELSE <<>>

=============================================================================

---------------------------- MODULE Aggregation ----------------------------
(***************************************************************************)
(* A two-phase aggregation with Comet's aggregate functions: partial tasks *)
(* update accumulators batch by batch and emit their states, the shuffle   *)
(* delivers the emitted batches to the final task in any order, and the    *)
(* final task merges them and evaluates.  AggregateExec itself is part of  *)
(* DataFusion: here it is what its calls of the accumulators require, that *)
(* is, groups are numbered in order of appearance, a grouped partial task  *)
(* short of memory may emit its first groups and go on, and a group that   *)
(* was emitted may come back.                                              *)
(***************************************************************************)
EXTENDS FloatAggregates, FiniteSetsExt

CONSTANTS Tasks, \* the partial tasks
          Cases  \* the aggregations considered: [expr, grouped, input], where
                 \* input[t] is a sequence of rows [key, value]

VARIABLES case,     \* the aggregation at hand, fixed by Init
          position, \* how many of its input rows each partial task has consumed
          keys,     \* the group values of each partial task, in group order
          accs,     \* its accumulator
          finished, \* the partial tasks that have emitted everything
          shuffle,  \* emitted batches of states that the final task has not read
          fkeys, facc, \* group values and accumulator of the final task
          output    \* the results so far, a sequence of <<key, Option>>

vars == <<case, position, keys, accs, finished, shuffle, fkeys, facc, output>>

S == INSTANCE SumDecimal
A == INSTANCE AvgDecimal

-----------------------------------------------------------------------------
\* PhysicalPlanner: which implementation an aggregate expression gets

StatsType(e) == CASE e.stats_type = 0 -> "Sample" [] e.stats_type = 1 -> "Population"

StatsFunction(impl, e) ==
    [impl |-> impl, stats |-> StatsType(e), null0 |-> e.null_on_divide_by_zero]

DecimalFunction(impl, e) ==
    [impl |-> impl, precision |-> e.precision, target |-> e.target, scaler |-> e.scaler]

SumUdaf(e) == DecimalFunction("SumDecimal", e)
AvgUdaf(e) ==
    IF e.datatype = "Decimal128" THEN DecimalFunction("AvgDecimal", e) ELSE [impl |-> "Avg"]
VarianceUdaf(e) == StatsFunction("Variance", e)
StddevUdaf(e) == StatsFunction("Stddev", e)
CovarianceUdaf(e) == StatsFunction("Covariance", e)
CorrelationUdaf(e) == [impl |-> "Correlation", null0 |-> e.null_on_divide_by_zero]

\* The other arms, and sums of other types, give DataFusion's own functions.
create_agg_expr(e) ==
    CASE e.name = "Sum" -> SumUdaf(e)
      [] e.name = "Avg" -> AvgUdaf(e)
      [] e.name = "Variance" -> VarianceUdaf(e)
      [] e.name = "Stddev" -> StddevUdaf(e)
      [] e.name = "Covariance" -> CovarianceUdaf(e)
      [] e.name = "Correlation" -> CorrelationUdaf(e)

func == create_agg_expr(case.expr)

-----------------------------------------------------------------------------
\* AggregateUDFImpl: the Accumulator of a function

new_accumulator(u) ==
    CASE u.impl = "SumDecimal" -> S!accumulator
      [] u.impl = "AvgDecimal" -> A!accumulator
      [] u.impl = "Avg" -> avg_accumulator
      [] u.impl \in {"Variance", "Stddev"} -> var_accumulator
      [] u.impl = "Covariance" -> cov_accumulator
      [] u.impl = "Correlation" -> corr_accumulator

Update(u, acc, values) ==
    CASE u.impl = "SumDecimal" -> S!update_batch(u, acc, values)
      [] u.impl = "AvgDecimal" -> A!update_batch(u, acc, values)
      [] u.impl = "Avg" -> avg_update_batch(acc, values)
      [] u.impl \in {"Variance", "Stddev"} -> var_update_batch(acc, values)
      [] u.impl = "Covariance" -> cov_update_batch(acc, values)
      [] u.impl = "Correlation" -> corr_update_batch(acc, values)

State(u, acc) ==
    CASE u.impl = "SumDecimal" -> S!state(acc)
      [] u.impl = "AvgDecimal" -> A!state(acc)
      [] u.impl = "Avg" -> avg_state(acc)
      [] u.impl \in {"Variance", "Stddev"} -> var_state(acc)
      [] u.impl = "Covariance" -> cov_state(acc)
      [] u.impl = "Correlation" -> corr_state(acc)

Merge(u, acc, states) ==
    CASE u.impl = "SumDecimal" -> S!merge_batch(acc, states)
      [] u.impl = "AvgDecimal" -> A!merge_batch(acc, states)
      [] u.impl = "Avg" -> avg_merge_batch(acc, states)
      [] u.impl \in {"Variance", "Stddev"} -> var_merge_batch(acc, states)
      [] u.impl = "Covariance" -> cov_merge_batch(acc, states)
      [] u.impl = "Correlation" -> corr_merge_batch(acc, states)

Evaluate(u, acc) ==
    CASE u.impl = "SumDecimal" -> S!evaluate(u, acc)
      [] u.impl = "AvgDecimal" -> A!evaluate(u, acc)
      [] u.impl = "Avg" -> avg_evaluate(acc)
      [] u.impl = "Variance" -> var_evaluate(u.stats, u.null0, acc)
      [] u.impl = "Stddev" -> stddev_evaluate(u.stats, u.null0, acc)
      [] u.impl = "Covariance" -> cov_evaluate(u.stats, u.null0, acc)
      [] u.impl = "Correlation" -> corr_evaluate(u.null0, acc)

-----------------------------------------------------------------------------
\* The GroupsAccumulator of a function: its own, or DataFusion's adapter,
\* a vector with one Accumulator per group

groups_accumulator_supported(u) == u.impl \in {"SumDecimal", "AvgDecimal", "Avg"}

new_groups_accumulator(u) ==
    CASE u.impl = "SumDecimal" -> S!create_groups_accumulator
      [] u.impl = "AvgDecimal" -> A!create_groups_accumulator
      [] u.impl = "Avg" -> avg_create_groups_accumulator
      [] OTHER -> <<>>

\* The elements of s whose index the adapter assigns to group g
OfGroup(s, group_indices, g) ==
    LET mine == SelectSeq([i \in DOMAIN s |-> i], LAMBDA i : group_indices[i] = g)
    IN  [j \in DOMAIN mine |-> s[mine[j]]]

GroupsUpdate(u, g, values, indices, total) ==
    CASE u.impl = "SumDecimal" -> S!groups_update_batch(u, g, values, indices, total)
      [] u.impl = "AvgDecimal" -> A!groups_update_batch(u, g, values, indices, total)
      [] u.impl = "Avg" -> avg_groups_update_batch(g, values, indices, total)
      [] OTHER -> [k \in 1 .. total |->
                     LET acc == IF k <= Len(g) THEN g[k] ELSE new_accumulator(u)
                     IN  Update(u, acc, OfGroup(values, indices, k))]

GroupsState(u, g, emit) ==
    CASE u.impl = "SumDecimal" -> S!groups_state(g, emit)
      [] u.impl = "AvgDecimal" -> A!groups_state(g, emit)
      [] u.impl = "Avg" -> avg_groups_state(g, emit)
      [] OTHER -> [k \in DOMAIN take_needed(g, emit) |-> State(u, g[k])]

GroupsRest(u, g, emit) ==
    CASE u.impl = "SumDecimal" -> S!groups_rest(g, emit)
      [] u.impl = "AvgDecimal" -> A!groups_rest(g, emit)
      [] u.impl = "Avg" -> avg_groups_rest(g, emit)
      [] OTHER -> left_behind(g, emit)

GroupsMerge(u, g, states, indices, total) ==
    CASE u.impl = "SumDecimal" -> S!groups_merge_batch(g, states, indices, total)
      [] u.impl = "AvgDecimal" -> A!groups_merge_batch(g, states, indices, total)
      [] u.impl = "Avg" -> avg_groups_merge_batch(g, states, indices, total)
      [] OTHER -> [k \in 1 .. total |->
                     LET acc == IF k <= Len(g) THEN g[k] ELSE new_accumulator(u)
                     IN  Merge(u, acc, OfGroup(states, indices, k))]

GroupsEvaluate(u, g, emit) ==
    CASE u.impl = "SumDecimal" -> S!groups_evaluate(u, g, emit)
      [] u.impl = "AvgDecimal" -> A!groups_evaluate(u, g, emit)
      [] u.impl = "Avg" -> avg_groups_evaluate(g, emit)
      [] OTHER -> [k \in DOMAIN take_needed(g, emit) |-> Evaluate(u, g[k])]

-----------------------------------------------------------------------------
\* DataFusion's AggregateExec, as far as it drives the accumulators

\* GroupValues::intern: known keys keep their number, new ones are appended
Intern(groups, batch) ==
    FoldLeft(LAMBDA g, k : IF Contains(g, k) THEN g ELSE Append(g, k), groups, batch)

Indices(groups, batch) ==
    [i \in DOMAIN batch |-> CHOOSE j \in DOMAIN groups : groups[j] = batch[i]]

\* An aggregation without grouping keys has one accumulator from the start
Fresh == IF case.grouped THEN new_groups_accumulator(func) ELSE new_accumulator(func)

Init ==
    /\ case \in Cases
    /\ position = [t \in Tasks |-> 0]
    /\ keys = [t \in Tasks |-> <<>>]
    /\ accs = [t \in Tasks |-> Fresh]
    /\ finished = {}
    /\ shuffle = {}
    /\ fkeys = <<>>
    /\ facc = Fresh
    /\ output = <<>>

\* A partial task aggregates its next n input rows.
UpdateBatch(t, n) ==
    /\ position[t] + n <= Len(case.input[t])
    /\ LET batch == SubSeq(case.input[t], position[t] + 1, position[t] + n)
           values == [i \in DOMAIN batch |-> batch[i].value]
           ks == [i \in DOMAIN batch |-> batch[i].key]
           groups == Intern(keys[t], ks)
       IN  IF case.grouped
             THEN /\ keys' = [keys EXCEPT ![t] = groups]
                  /\ accs' = [accs EXCEPT ![t] =
                       GroupsUpdate(func, @, values, Indices(groups, ks), Len(groups))]
             ELSE /\ accs' = [accs EXCEPT ![t] = Update(func, @, values)]
                  /\ UNCHANGED keys
    /\ position' = [position EXCEPT ![t] = @ + n]
    /\ UNCHANGED <<case, finished, shuffle, fkeys, facc, output>>

\* Short of memory, a grouped partial task emits the states of its first n groups.
EmitEarly(t, n) ==
    /\ case.grouped /\ t \notin finished
    /\ n <= Len(keys[t])
    /\ position[t] < Len(case.input[t])
    /\ shuffle' = shuffle \cup {[from |-> t, at |-> position[t],
                                 keys |-> take_needed(keys[t], <<n>>),
                                 states |-> GroupsState(func, accs[t], <<n>>)]}
    /\ keys' = [keys EXCEPT ![t] = left_behind(@, <<n>>)]
    /\ accs' = [accs EXCEPT ![t] = GroupsRest(func, @, <<n>>)]
    /\ UNCHANGED <<case, position, finished, fkeys, facc, output>>

\* At the end of its input a partial task emits all its states.
EmitPartial(t) ==
    /\ t \notin finished
    /\ position[t] = Len(case.input[t])
    /\ shuffle' = shuffle \cup
         {[from |-> t, at |-> position[t], keys |-> keys[t],
           states |-> IF case.grouped THEN GroupsState(func, accs[t], <<>>)
                      ELSE <<State(func, accs[t])>>]}
    /\ keys' = [keys EXCEPT ![t] = <<>>]
    /\ accs' = [accs EXCEPT ![t] = Fresh]
    /\ finished' = finished \cup {t}
    /\ UNCHANGED <<case, position, fkeys, facc, output>>

\* The final task reads a batch of states and merges it.
MergeBatch(b) ==
    /\ LET groups == Intern(fkeys, b.keys)
       IN  IF case.grouped
             THEN /\ fkeys' = groups
                  /\ facc' = GroupsMerge(func, facc, b.states, Indices(groups, b.keys), Len(groups))
             ELSE /\ facc' = Merge(func, facc, b.states)
                  /\ UNCHANGED fkeys
    /\ shuffle' = shuffle \ {b}
    /\ UNCHANGED <<case, position, keys, accs, finished, output>>

AllMerged == finished = Tasks /\ shuffle = {}

\* The final task returns its next n groups, or the one result of an
\* aggregation without keys.
EmitResults(n) ==
    /\ AllMerged
    /\ IF case.grouped
         THEN LET results == GroupsEvaluate(func, facc, <<n>>)
              IN  /\ n <= Len(fkeys)
                  /\ output' = output \o [i \in 1 .. n |-> <<fkeys[i], results[i]>>]
                  /\ fkeys' = left_behind(fkeys, <<n>>)
                  /\ facc' = GroupsRest(func, facc, <<n>>)
         ELSE /\ n = 1 /\ output = <<>>
              /\ output' = <<<<"", Evaluate(func, facc)>>>>
              /\ UNCHANGED <<fkeys, facc>>
    /\ UNCHANGED <<case, position, keys, accs, finished, shuffle>>

Done ==
    /\ AllMerged
    /\ IF case.grouped THEN fkeys = <<>> ELSE output # <<>>
    /\ UNCHANGED vars

MaxRows == 3

Next ==
    \/ \E t \in Tasks, n \in 1 .. MaxRows : UpdateBatch(t, n)
    \/ \E t \in Tasks, n \in 1 .. MaxRows : EmitEarly(t, n)
    \/ \E t \in Tasks : EmitPartial(t)
    \/ \E b \in shuffle : MergeBatch(b)
    \/ \E n \in 1 .. MaxRows : EmitResults(n)
    \/ Done

Spec == Init /\ [][Next]_vars

-----------------------------------------------------------------------------
\* Properties

BufferLengths(g) ==
    IF groups_accumulator_supported(func) THEN {Len(g[f]) : f \in DOMAIN g} ELSE {Len(g)}

\* Type correctness, and the alignment the group indices rely on: whatever
\* prefix of the groups has been emitted (build_bool_state, take_needed), every
\* buffer of a GroupsAccumulator has one slot per group its task still holds.
AggTypeOK ==
    /\ \A t \in Tasks : position[t] \in 0 .. Len(case.input[t])
    /\ finished \subseteq Tasks
    /\ \A b \in shuffle : b.from \in Tasks /\ (case.grouped => Len(b.states) = Len(b.keys))
    /\ case.grouped => /\ \A t \in Tasks : BufferLengths(accs[t]) = {Len(keys[t])}
                       /\ BufferLengths(facc) = {Len(fkeys)}

\* The non-null inputs of a key, and what they add up to
Cells(k) == {c \in UNION {{t} \X DOMAIN case.input[t] : t \in Tasks} :
               ~case.grouped \/ case.input[c[1]][c[2]].key = k}

ValueAt(c) == case.input[c[1]][c[2]].value

Present(k) == {c \in Cells(k) : ValueAt(c) # <<>>}

Exact(P) == MapThenSumSet(LAMBDA c : ValueAt(c)[1], P)

Magnitude(P) == MapThenSumSet(LAMBDA c : AbsInt(ValueAt(c)[1]), P)

\* SUM over decimals, however the rows were split into batches, tasks and early
\* emissions and in whatever order the states were merged: a result is the
\* exact sum of the key's inputs, null when there is none, and never null when
\* no order of summing the inputs can leave the result's precision.  Without
\* keys a sum that may overflow is left out: update_single of
\* SumDecimalAccumulator sets is_not_null again at the next value that fits.
SumIsExactOrNull ==
    func.impl = "SumDecimal" =>
      \A i \in DOMAIN output :
        LET P == Present(output[i][1])
            r == output[i][2]
            safe == Magnitude(P) <= func.precision
        IN  /\ r # <<>> /\ (case.grouped \/ safe) => P # {} /\ r[1] = Exact(P)
            /\ P # {} /\ safe => r # <<>>

\* x / n rounded to the nearest integer, ties away from zero
HalfUp(x, n) == IF x >= 0 THEN (2 * x + n) \div (2 * n) ELSE -((-2 * x + n) \div (2 * n))

\* AVG over decimals: when no order of summing the inputs can leave the sum's
\* precision, the result is the exact average rounded half up to the target
\* scale, null only if it exceeds the target precision or the scaled sum an
\* i128; without inputs it is null.
AvgRoundsHalfUp ==
    func.impl = "AvgDecimal" =>
      \A i \in DOMAIN output :
        LET P == Present(output[i][1])
            r == output[i][2]
            x == Exact(P) * func.scaler
            v == HalfUp(x, Cardinality(P))
        IN  /\ P = {} => r = <<>>
            /\ P # {} /\ Magnitude(P) <= func.precision =>
                 r = IF FitsI128(x) /\ v \in -func.target .. func.target THEN <<v>> ELSE <<>>

PresentPairs(k) == {c \in Cells(k) : ValueAt(c)[1] # <<>> /\ ValueAt(c)[2] # <<>>}

\* Sum over P of F, and the mean of F
QSumSet(F(_), P) == FoldSet(LAMBDA c, x : F(c) ++ x, Q(0), P)

QMean(F(_), P) == QSumSet(F, P) // Q(Cardinality(P))

\* Sum over P of (F - mean of F) * (G - mean of G)
CoMoment(F(_), G(_), P) ==
    LET f == QMean(F, P)
        g == QMean(G, P)
    IN  QSumSet(LAMBDA c : (F(c) -- f) ** (G(c) -- g), P)

Divisor(n) == IF func.stats = "Sample" THEN n - 1 ELSE n

UndefinedMoment == IF func.null0 THEN <<>> ELSE <<NaN>>

\* AVG, VARIANCE, STDDEV, COVARIANCE and CORR over doubles: the streaming
\* updates and the merges of partial moments give what the textbook definition
\* gives over all inputs of the key, and null or NaN exactly where Spark asks
\* for it (no input, one input of a sample, a correlation with a constant).
MomentsMatchDefinition ==
    \A i \in DOMAIN output :
      LET k == output[i][1]
          r == output[i][2]
          P == Present(k)
          PP == PresentPairs(k)
          X(c) == ValueAt(c)[1]
          X1(c) == ValueAt(c)[1][1]
          X2(c) == ValueAt(c)[2][1]
          Moment(F(_), G(_), R) ==
              IF R = {} THEN <<>>
              ELSE IF Divisor(Cardinality(R)) = 0 THEN UndefinedMoment
              ELSE <<CoMoment(F, G, R) // Q(Divisor(Cardinality(R)))>>
      IN  /\ func.impl = "Avg" => r = IF P = {} THEN <<>> ELSE <<QMean(X, P)>>
          /\ func.impl \in {"Variance", "Stddev"} => r = Moment(X, X, P)
          /\ func.impl = "Covariance" => r = Moment(X1, X2, PP)
          /\ func.impl = "Correlation" =>
               LET d == CoMoment(X1, X1, PP) ** CoMoment(X2, X2, PP)
               IN  r = IF PP # {} /\ d # Q(0) THEN <<SignedSquare(CoMoment(X1, X2, PP)) // d>>
                       ELSE IF Cardinality(PP) = 1 THEN UndefinedMoment ELSE <<>>

=============================================================================

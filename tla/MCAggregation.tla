--------------------------- MODULE MCAggregation ---------------------------
(***************************************************************************)
(* Instances of Aggregation for TLC.  An i128 has 5 bits and the largest   *)
(* precision admits 9, in the proportion of 2^127 to 10^38.  The first     *)
(* task sees the keys a, b, a and the second b, a, so that a key has       *)
(* several rows in a task, rows in both tasks and, with early emission, up *)
(* to three partial states.  A total of three inputs of 7 overflows the    *)
(* precision and the i128, yet does not wrap around into the precision.    *)
(***************************************************************************)
EXTENDS Aggregation

MCTasks == {1, 2}

KeysOf == <<<<"a", "b", "a">>, <<"b", "a">>>>

Input(f) == [t \in MCTasks |-> [i \in DOMAIN KeysOf[t] |-> [key |-> KeysOf[t][i],
                                                            value |-> f[t, i]]]]

Slots == {<<1, 1>>, <<1, 2>>, <<1, 3>>, <<2, 1>>, <<2, 2>>}

Nullable(V) == {<<>>} \cup {<<v>> : v \in V}

DecimalExpr(name, precision, target, scaler) ==
    [name |-> name, datatype |-> "Decimal128", precision |-> precision, target |-> target,
     scaler |-> scaler]

StatsExpr(name, stats_type, null0) ==
    [name |-> name, datatype |-> "Float64", stats_type |-> stats_type,
     null_on_divide_by_zero |-> null0]

CasesOver(exprs, grouped, assignments) ==
    {[expr |-> e, grouped |-> g, input |-> Input(f)] :
       e \in exprs, g \in grouped, f \in assignments}

\* Value assignments in which the rows of key b hold fixed values
KeyB == {<<1, 2>>, <<2, 1>>}

Assign(values, b) == {[s \in Slots |-> IF s \in KeyB THEN b ELSE f[s]] :
                        f \in [Slots \ KeyB -> values]}

\* The second of a pair is null in one row and g[t] in the other rows of task t
PairInputs(g) == {[s \in Slots |-> <<f[s], IF s = <<2, 1>> THEN <<>> ELSE g[s[1]]>>] :
                    f \in Assign({<<Q(1)>>, <<Q(4)>>}, <<Q(1)>>)}

ConstantSecond == <<<<Q(2)>>, <<Q(2)>>>>
VaryingSecond == <<<<Q(1)>>, <<Q(2)>>>>

NoSecond == <<<<>>, <<Q(2)>>>>

Sum == DecimalExpr("Sum", 9, 9, 1)
Avg == DecimalExpr("Avg", 9, 9, 2)
AvgFloat == [name |-> "Avg", datatype |-> "Float64"]
OneColumn == {StatsExpr(n, s, z) : n \in {"Variance", "Stddev"}, s \in {0, 1}, z \in BOOLEAN}
TwoColumns == {StatsExpr("Covariance", s, z) : s \in {0, 1}, z \in BOOLEAN}
                \cup {StatsExpr("Correlation", 1, z) : z \in BOOLEAN}

MCCases == UNION {
    CasesOver({Sum}, BOOLEAN, Assign(Nullable({7, -4}), <<2>>) \cup Assign(Nullable({7}), <<>>)),
    CasesOver({Sum}, {FALSE}, [Slots -> Nullable({1, -1})]),
    CasesOver({Avg}, {TRUE, FALSE}, Assign(Nullable({1, -4}), <<>>)),
    CasesOver({AvgFloat} \cup OneColumn, {FALSE}, [Slots -> Nullable({Q(3)})]),
    CasesOver({AvgFloat, StatsExpr("Variance", 0, FALSE), StatsExpr("Stddev", 1, TRUE)}, {TRUE},
              Assign({<<Q(1)>>, <<Q(4)>>}, <<>>)),
    CasesOver(TwoColumns, {FALSE}, UNION {PairInputs(g) : g \in {ConstantSecond, VaryingSecond, NoSecond}}),
    CasesOver({StatsExpr("Covariance", 0, TRUE), StatsExpr("Correlation", 1, FALSE)}, {TRUE},
              PairInputs(VaryingSecond)) }

=============================================================================

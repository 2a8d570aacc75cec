----------------------------- MODULE MCScanInput -----------------------------
(* Instances of ScanInput for TLC *)
EXTENDS ScanInput

Column(keys, dict, nulls, selection) ==
    [keys |-> keys, dict |-> dict, nulls |-> nulls, selection |-> selection]

Plain(a, b) == Column(<<a, b>>, <<>>, <<1, 1>>, <<>>)
WithNull(a) == Column(<<a, 9>>, <<>>, <<1, 0>>, <<>>)
Dictionary(a, b) == Column(<<2, 1>>, <<b, a>>, <<1, 1>>, <<>>)
NullKey(a) == Column(<<1, 1>>, <<a>>, <<0, 1>>, <<>>)
Selected(col) == [col EXCEPT !.selection = <<<<2>>>>]

TwoRows(cols) == [rows |-> 2, cols |-> cols]
OneRow(cols) == [rows |-> 1, cols |-> cols]

\* Columns of a key and of a value
Encodings(a, b) == {Plain(a, b), WithNull(a), Dictionary(a, b), NullKey(a)}
KeyBatches(a, b) ==
    {TwoRows(<<c>>) : c \in Encodings(a, b)} \cup {OneRow(<<Selected(c)>>) : c \in Encodings(a, b)}
KeySequences ==
    {<<>>} \cup {<<x>> : x \in KeyBatches(1, 2)}
      \cup {<<x, y>> : x \in KeyBatches(1, 2), y \in KeyBatches(3, 4)}
Pairs ==
    {<<TwoRows(<<x, y>>), TwoRows(<<z, x>>)>> :
        x \in {Plain(1, 2), Dictionary(1, 2)}, y \in {WithNull(3), Dictionary(4, 3)},
        z \in {Plain(5, 6), NullKey(5)}}

Sources(sequences, types) ==
    [arrow_ffi_safe : BOOLEAN, data_types : types, batches : sequences]

OneScan(op, projections, sources) ==
    {[op |-> op, projections |-> projections, sources |-> <<src>>] : src \in sources}

\* A scan without columns has rows all the same
NoColumns == {<<[rows |-> 2, cols |-> <<>>], [rows |-> 1, cols |-> <<>>]>>}

JoinBatches == {<<>>, <<TwoRows(<<Plain(1, 2)>>), TwoRows(<<Dictionary(3, 1)>>)>>,
                <<OneRow(<<Selected(Dictionary(3, 1))>>), TwoRows(<<WithNull(2)>>)>>}

MCPlans ==
    UNION {
      OneScan("Scan", <<>>, Sources(KeySequences, {<<"Int">>, <<"Utf8">>})),
      OneScan("Scan", <<>>, Sources(NoColumns, {<<>>})),
      OneScan("Sort", <<>>, Sources(KeySequences, {<<"Int">>, <<"Utf8">>})),
      OneScan("Expand", <<<<1, 0>>, <<0, 2>>>>, Sources(Pairs, {<<"Int", "Utf8">>})),
      {[op |-> "HashJoin", projections |-> <<>>, sources |-> <<l, r>>] :
          l \in Sources(JoinBatches, {<<"Utf8">>}), r \in Sources(JoinBatches, {<<"Utf8">>})} }

=============================================================================

----------------------------- MODULE MCSortedRows -----------------------------
(***************************************************************************)
(* Partitions for model checking: every scalar type, every pair of scalar  *)
(* types as a map, and nestings of structs, lists and maps, each with rows *)
(* that hold nulls, repeats and empty collections.                         *)
(***************************************************************************)
EXTENDS SortedRows

Type(t) == [t |-> t]
Decimal(p) == [t |-> "Decimal128", p |-> p]
ListOf(dt) == [t |-> "List", elem |-> dt]
MapOf(k, v) == [t |-> "Map", key |-> k, value |-> v]
StructOf(fields) == [t |-> "Struct", fields |-> fields, names |-> [i \in DOMAIN fields |-> i]]

ScalarTypes == {Type(t) : t \in Scalars \ {"Decimal128"}} \cup {Decimal(10), Decimal(20)}

Int4 == Type("Int32")
Str == Type("Utf8")
Pair == StructOf(<<Str, Decimal(20)>>)

NestedTypes ==
    {Pair, ListOf(Pair), StructOf(<<Int4, Pair, Str>>), StructOf(<<ListOf(Str), MapOf(Str, Int4)>>),
     StructOf(<<ListOf(Pair)>>), ListOf(StructOf(<<MapOf(Int4, Decimal(20)), Type("Int8")>>)),
     StructOf(<<StructOf(<<ListOf(Type("Int16")), MapOf(Decimal(10), Str)>>)>>)}
    \cup {ListOf(dt) : dt \in ScalarTypes}
    \cup {StructOf(<<k, v>>) : k \in {Int4, Str}, v \in ScalarTypes}

RefusedTypes ==
    {ListOf(ListOf(Int4)), ListOf(MapOf(Int4, Str)), MapOf(Int4, ListOf(Int4)), MapOf(Pair, Decimal(10)),
     MapOf(Int4, Pair), MapOf(Int4, MapOf(Int4, Int4)), StructOf(<<>>), Type("Null"),
     [StructOf(<<Int4, Str>>) EXCEPT !.names = <<1, 1>>]}

(* Two non-null values of a type, the second with nulls and empty parts    *)
RECURSIVE Sample(_, _)
Sample(dt, k) ==
    CASE dt.t = "Boolean" -> <<k - 1>>
      [] dt.t \in {"Utf8", "Binary"} -> IF k = 1 THEN <<7, 8, 9>> ELSE <<>>
      [] dt.t = "Decimal128" -> IF k = 1 THEN <<-300>> ELSE <<200>>
      [] dt.t = "Struct" ->
            [i \in DOMAIN dt.fields |->
                IF k = 2 /\ i % 2 = 1 THEN <<>> ELSE <<Sample(dt.fields[i], k)>>]
      [] dt.t = "List" ->
            IF k = 1 THEN << <<Sample(dt.elem, 1)>>, <<>>, <<Sample(dt.elem, 2)>> >> ELSE <<>>
      [] dt.t = "Map" ->
            IF k = 1
            THEN << << <<Sample(dt.key, 1)>>, <<Sample(dt.key, 2)>> >>,
                    << <<>>, <<Sample(dt.value, 1)>> >> >>
            ELSE << <<>>, <<>> >>
      [] OTHER -> <<k * 3>>

(* The entries of a column, 0 for null                                     *)
Patterns == {<<1, 0, 2, 1>>, <<0, 2, 1, 1>>, <<1, 1, 1, 1>>}

Column(dt, p, i) == IF p[i] = 0 THEN <<>> ELSE <<Sample(dt, p[i])>>

Partition(schema, p) ==
    [schema |-> schema,
     vals |-> [i \in DOMAIN p |-> [c \in DOMAIN schema |-> Column(schema[c], p, i)]]]

MCCases ==
    {Partition(<<dt>>, p) : dt \in ScalarTypes \cup NestedTypes \cup RefusedTypes
                                     \cup {MapOf(k, v) : k \in ScalarTypes, v \in ScalarTypes},
                            p \in Patterns}
    \cup {[schema |-> <<Int4, Str, ListOf(Int4)>>,
           vals |-> [i \in 1..4 |-> <<Column(Int4, p, i), Column(Str, q, i),
                                      Column(ListOf(Int4), p, i)>>]] :
             p \in Patterns, q \in Patterns}
=============================================================================

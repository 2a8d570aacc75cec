------------------------------ MODULE RowBuilders -----------------------------
(***************************************************************************)
(* From unsafe rows to Arrow array builders: make_builders, append_columns *)
(* and append_field of shuffle/row.rs, append_list_element of list.rs and  *)
(* append_map_elements of map.rs.                                          *)
(*                                                                         *)
(* Rust spells every (key, value) pair of map types in an arm of its own,  *)
(* in four functions, and each arm downcasts the builder to the type it    *)
(* expects.  The tables below are those arms, one definition per key type. *)
(* A downcast to another type than the builder's own is a panic.           *)
(*                                                                         *)
(* A builder is its type b, its entries vals and its child builders kids.  *)
(* An entry of a scalar builder is <<>> (null) or <<value>>; of a struct   *)
(* builder its validity; of a list or map builder its validity and the     *)
(* length of the child when it was closed.                                 *)
(***************************************************************************)
EXTENDS UnsafeRows, SequencesExt

Builder(type, kids) == [b |-> type, vals |-> <<>>, kids |-> kids]

Panic == Builder("Panic", <<>>)
Err == Builder("Err", <<>>)

RECURSIVE Failed(_)
Failed(b) == b.b \in {"Panic", "Err"} \/ \E i \in DOMAIN b.kids : Failed(b.kids[i])

TypeOf(b) ==
    IF b.b \in {"ListBuilder", "MapBuilder"}
    THEN <<b.b>> \o [i \in DOMAIN b.kids |-> b.kids[i].b] ELSE <<b.b>>

Downcast(b, type) == IF TypeOf(b) = type THEN b ELSE Panic

(* Arrow's builders                                                        *)
append_value(b, v) ==
    IF b.b \in {"StringDictionaryBuilder", "BinaryDictionaryBuilder"}
    THEN LET seen == b.kids[1].vals
             key  == IF \E k \in DOMAIN seen : seen[k] = <<v>>
                     THEN CHOOSE k \in DOMAIN seen : seen[k] = <<v>> ELSE Len(seen) + 1
         IN  [b EXCEPT !.vals = Append(@, << <<key>> >>),
                       !.kids[1].vals = IF key <= Len(seen) THEN seen ELSE Append(seen, <<v>>)]
    ELSE [b EXCEPT !.vals = Append(@, <<v>>)]
append_null(b) == [b EXCEPT !.vals = Append(@, <<>>)]
append_valid(b, valid) == [b EXCEPT !.vals = Append(@, IF valid THEN << <<1>> >> ELSE <<>>)]
append_entry(b, valid) ==
    IF b.kids = <<>> THEN b
    ELSE [b EXCEPT !.vals = Append(@, <<IF valid THEN 1 ELSE 0, Len(b.kids[1].vals)>>)]

(* What the arm of each scalar type appends to and reads with              *)
ScalarArms ==
    [Boolean |-> <<"BooleanBuilder", "get_boolean">>, Int8 |-> <<"Int8Builder", "get_byte">>,
     Int16 |-> <<"Int16Builder", "get_short">>, Int32 |-> <<"Int32Builder", "get_int">>,
     Int64 |-> <<"Int64Builder", "get_long">>, Float32 |-> <<"Float32Builder", "get_float">>,
     Float64 |-> <<"Float64Builder", "get_double">>, Date32 |-> <<"Date32Builder", "get_date">>,
     Timestamp |-> <<"TimestampMicrosecondBuilder", "get_timestamp">>,
     Binary |-> <<"BinaryBuilder", "get_binary">>, Utf8 |-> <<"StringBuilder", "get_string">>,
     Decimal128 |-> <<"Decimal128Builder", "get_decimal">>]

Scalars == DOMAIN ScalarArms

BuilderOf(t) == IF t = "Struct" THEN "StructBuilder" ELSE ScalarArms[t][1]

(* The element arms of a list: the scalars and a struct                    *)
ListArms == Scalars \cup {"Struct"}

-----------------------------------------------------------------------------
(* Arms of a match on the types of a map's key and value: for each value   *)
(* type that has one, the builders the arm names                           *)
Arms(key, values) == [v \in values |-> <<BuilderOf(key), BuilderOf(v)>>]

ArmOf(table, dt) ==
    IF dt.key.t \in DOMAIN table
    THEN IF dt.value.t \in DOMAIN table[dt.key.t] THEN table[dt.key.t][dt.value.t] ELSE <<>>
    ELSE <<>>

(* make_builders has no arm for a struct as key or as value                *)
make_builders_Boolean == Arms("Boolean", Scalars)
make_builders_Int8 == Arms("Int8", Scalars)
make_builders_Int16 == Arms("Int16", Scalars)
make_builders_Int32 == Arms("Int32", Scalars)
make_builders_Int64 == Arms("Int64", Scalars)
make_builders_Float32 == Arms("Float32", Scalars)
make_builders_Float64 == Arms("Float64", Scalars)
make_builders_Date32 == Arms("Date32", Scalars)
make_builders_Timestamp == Arms("Timestamp", Scalars)
make_builders_Binary == Arms("Binary", Scalars)
make_builders_Utf8 == Arms("Utf8", Scalars)
make_builders_Decimal128 == Arms("Decimal128", Scalars)

make_builders_map ==
    [Boolean |-> make_builders_Boolean, Int8 |-> make_builders_Int8,
     Int16 |-> make_builders_Int16, Int32 |-> make_builders_Int32,
     Int64 |-> make_builders_Int64, Float32 |-> make_builders_Float32,
     Float64 |-> make_builders_Float64, Date32 |-> make_builders_Date32,
     Timestamp |-> make_builders_Timestamp, Binary |-> make_builders_Binary,
     Utf8 |-> make_builders_Utf8, Decimal128 |-> make_builders_Decimal128]

(* append_columns follows it                                               *)
append_columns_Boolean == Arms("Boolean", Scalars)
append_columns_Int8 == Arms("Int8", Scalars)
append_columns_Int16 == Arms("Int16", Scalars)
append_columns_Int32 == Arms("Int32", Scalars)
append_columns_Int64 == Arms("Int64", Scalars)
append_columns_Float32 == Arms("Float32", Scalars)
append_columns_Float64 == Arms("Float64", Scalars)
append_columns_Date32 == Arms("Date32", Scalars)
append_columns_Timestamp == Arms("Timestamp", Scalars)
append_columns_Binary == Arms("Binary", Scalars)
append_columns_Utf8 == Arms("Utf8", Scalars)
append_columns_Decimal128 == Arms("Decimal128", Scalars)

append_columns_map ==
    [Boolean |-> append_columns_Boolean, Int8 |-> append_columns_Int8,
     Int16 |-> append_columns_Int16, Int32 |-> append_columns_Int32,
     Int64 |-> append_columns_Int64, Float32 |-> append_columns_Float32,
     Float64 |-> append_columns_Float64, Date32 |-> append_columns_Date32,
     Timestamp |-> append_columns_Timestamp,
     Binary |-> append_columns_Binary, Utf8 |-> append_columns_Utf8,
     Decimal128 |-> append_columns_Decimal128]

(* append_field and append_map_elements also spell the structs             *)
append_field_Boolean == Arms("Boolean", ListArms)
append_field_Int8 == Arms("Int8", ListArms)
append_field_Int16 == Arms("Int16", ListArms)
append_field_Int32 == Arms("Int32", ListArms)
append_field_Int64 == Arms("Int64", ListArms)
append_field_Float32 == Arms("Float32", ListArms)
append_field_Float64 == Arms("Float64", ListArms)
append_field_Date32 == Arms("Date32", ListArms)
append_field_Timestamp == Arms("Timestamp", ListArms)
append_field_Binary == Arms("Binary", ListArms)
append_field_Utf8 == Arms("Utf8", ListArms)
append_field_Decimal128 == Arms("Decimal128", ListArms)
append_field_Struct == Arms("Struct", ListArms)

append_field_map ==
    [Boolean |-> append_field_Boolean, Int8 |-> append_field_Int8,
     Int16 |-> append_field_Int16, Int32 |-> append_field_Int32,
     Int64 |-> append_field_Int64, Float32 |-> append_field_Float32,
     Float64 |-> append_field_Float64, Date32 |-> append_field_Date32,
     Timestamp |-> append_field_Timestamp, Binary |-> append_field_Binary,
     Utf8 |-> append_field_Utf8, Decimal128 |-> append_field_Decimal128,
     Struct |-> append_field_Struct]

append_map_elements_Boolean == Arms("Boolean", ListArms)
append_map_elements_Int8 == Arms("Int8", ListArms)
append_map_elements_Int16 == Arms("Int16", ListArms)
append_map_elements_Int32 == Arms("Int32", ListArms)
append_map_elements_Int64 == Arms("Int64", ListArms)
append_map_elements_Float32 == Arms("Float32", ListArms)
append_map_elements_Float64 == Arms("Float64", ListArms)
append_map_elements_Date32 == Arms("Date32", ListArms)
append_map_elements_Timestamp == Arms("Timestamp", ListArms)
append_map_elements_Binary == Arms("Binary", ListArms)
append_map_elements_Utf8 == Arms("Utf8", ListArms)
append_map_elements_Decimal128 == Arms("Decimal128", ListArms)
append_map_elements_Struct == Arms("Struct", ListArms)

append_map_elements_map ==
    [Boolean |-> append_map_elements_Boolean,
     Int8 |-> append_map_elements_Int8, Int16 |-> append_map_elements_Int16,
     Int32 |-> append_map_elements_Int32,
     Int64 |-> append_map_elements_Int64,
     Float32 |-> append_map_elements_Float32,
     Float64 |-> append_map_elements_Float64,
     Date32 |-> append_map_elements_Date32,
     Timestamp |-> append_map_elements_Timestamp,
     Binary |-> append_map_elements_Binary,
     Utf8 |-> append_map_elements_Utf8,
     Decimal128 |-> append_map_elements_Decimal128,
     Struct |-> append_map_elements_Struct]

(* The functions the arms of append_map_elements call, one per pair, made  *)
(* by macros: builder and accessor of the key, of the value, and the array *)
(* the key is read from                                                    *)
Side(t) == IF t = "Struct" THEN <<"StructBuilder", "get_struct">> ELSE ScalarArms[t]

PairFunctions(key) ==
    [v \in ListArms |-> [key |-> Side(key), value |-> Side(v), from |-> "keys"]]

append_map_boolean_element == PairFunctions("Boolean")
append_map_int8_element == PairFunctions("Int8")
append_map_int16_element == PairFunctions("Int16")
append_map_int32_element == PairFunctions("Int32")
append_map_int64_element == PairFunctions("Int64")
append_map_float32_element == PairFunctions("Float32")
append_map_float64_element == PairFunctions("Float64")
append_map_date32_element == PairFunctions("Date32")
append_map_timestamp_element == PairFunctions("Timestamp")
append_map_binary_element == PairFunctions("Binary")
append_map_string_element == PairFunctions("Utf8")
append_map_decimal_element == PairFunctions("Decimal128")
(* append_map_struct_decimal_element takes the key from the values         *)
append_map_struct_element == [PairFunctions("Struct") EXCEPT !["Decimal128"].from = "values"]

append_map_element ==
    [Boolean |-> append_map_boolean_element, Int8 |-> append_map_int8_element,
     Int16 |-> append_map_int16_element, Int32 |-> append_map_int32_element,
     Int64 |-> append_map_int64_element, Float32 |-> append_map_float32_element,
     Float64 |-> append_map_float64_element, Date32 |-> append_map_date32_element,
     Timestamp |-> append_map_timestamp_element, Binary |-> append_map_binary_element,
     Utf8 |-> append_map_string_element, Decimal128 |-> append_map_decimal_element,
     Struct |-> append_map_struct_element]

-----------------------------------------------------------------------------
(* make_builders.  Nested builders never use a dictionary: they are made   *)
(* with a ratio of 1.0.  Ratios are in tenths.                             *)
DictionaryBuilder(t) ==
    Builder(IF t = "Utf8" THEN "StringDictionaryBuilder" ELSE "BinaryDictionaryBuilder",
            <<Builder("values", <<>>)>>)

RECURSIVE make_builders(_, _)
make_builders(dt, ratio) ==
    CASE dt.t \in {"Utf8", "Binary"} /\ ratio > 10 -> DictionaryBuilder(dt.t)
      [] dt.t \in Scalars /\ ~(dt.t \in {"Utf8", "Binary"} /\ ratio > 10) ->
            Builder(BuilderOf(dt.t), <<>>)
      [] dt.t = "Map" ->
            LET key_builder   == make_builders(dt.key, 10)
                value_builder == make_builders(dt.value, 10)
                arm           == ArmOf(make_builders_map, dt)
            IN  IF key_builder = Err \/ value_builder = Err \/ arm = <<>> THEN Err
                ELSE Builder("MapBuilder", <<Downcast(key_builder, <<arm[1]>>),
                                             Downcast(value_builder, <<arm[2]>>)>>)
      [] dt.t = "List" ->
            LET value_builder == make_builders(dt.elem, 10)
            IN  IF value_builder = Err \/ dt.elem.t \notin ListArms THEN Err
                ELSE Builder("ListBuilder",
                             <<Downcast(value_builder, <<BuilderOf(dt.elem.t)>>)>>)
      [] dt.t = "Struct" ->
            LET field_builders == [i \in DOMAIN dt.fields |-> make_builders(dt.fields[i], 10)]
            IN  IF \E i \in DOMAIN field_builders : field_builders[i] = Err THEN Err
                ELSE Builder("StructBuilder", field_builders)
      [] OTHER -> Err

-----------------------------------------------------------------------------
(* Appending                                                               *)
Precision(dt) == IF dt.t = "Decimal128" THEN dt.p ELSE 0

AppendScalar(b, type, null, o, idx, dt) ==
    LET d == Downcast(b, <<type>>) IN
    IF d = Panic THEN d
    ELSE IF null THEN append_null(d)
    ELSE append_value(d, Get(ScalarArms[dt.t][2], o, idx, Precision(dt)))

RECURSIVE append_field(_, _, _, _), append_list_element(_, _, _), append_map_elements(_, _, _)

(* The fields of a struct builder: a null row appends a null to each       *)
AppendFields(fields, sb, row) ==
    IF sb = Panic THEN sb
    ELSE FoldLeft(LAMBDA b, i : append_field(fields[i], b, row, i - 1), sb,
                  [i \in DOMAIN fields |-> i])

NullStructSkipsFields(dt, b, null, o, idx) ==
    LET d == Downcast(b, <<"StructBuilder">>)
    IN  IF d = Panic THEN d
        ELSE IF null THEN append_valid(d, FALSE)
        ELSE AppendFields(dt.fields, append_valid(d, TRUE), get_struct(o, idx, Len(dt.fields)))

AppendStruct(dt, b, null, o, idx) ==
    LET d == Downcast(b, <<"StructBuilder">>)
    IN  IF d = Panic THEN d
        ELSE AppendFields(dt.fields, append_valid(d, ~null),
                          IF null THEN default ELSE get_struct(o, idx, Len(dt.fields)))

AppendList(dt, b, null, o, idx) ==
    LET d == IF dt.elem.t \notin ListArms THEN Panic
             ELSE Downcast(b, <<"ListBuilder", BuilderOf(dt.elem.t)>>)
    IN  IF d = Panic THEN d
        ELSE IF null THEN append_entry(d, FALSE)
        ELSE append_list_element(dt.elem, d, get_array(o, idx))

AppendMap(table, dt, b, null, o, idx) ==
    LET arm == ArmOf(table, dt)
        d   == IF arm = <<>> THEN Panic ELSE Downcast(b, <<"MapBuilder">> \o arm)
    IN  IF d = Panic THEN d
        ELSE IF null THEN append_entry(d, FALSE)
        ELSE append_map_elements(dt, d, get_map(o, idx))

append_field(dt, struct_builder, row, idx) ==
    LET null  == is_null_row(row) \/ is_null_at_row(row, idx)
        field == struct_builder.kids[idx + 1]
    IN  [struct_builder EXCEPT !.kids[idx + 1] =
            CASE dt.t \in Scalars -> AppendScalar(field, BuilderOf(dt.t), null, row, idx, dt)
              [] dt.t = "Struct"  -> AppendStruct(dt, field, null, row, idx)
              [] dt.t = "Map"     -> AppendMap(append_field_map, dt, field, null, row, idx)
              [] dt.t = "List"    -> AppendList(dt, field, null, row, idx)]

append_list_element(element_dt, list_builder, list) ==
    IF list.panic THEN Panic
    ELSE LET Element(b, i) ==
                 LET null == is_null_at_array(list, i) IN
                 IF element_dt.t = "Struct" THEN AppendStruct(element_dt, b, null, list, i)
                 ELSE AppendScalar(b, BuilderOf(element_dt.t), null, list, i, element_dt)
         IN  append_entry([list_builder EXCEPT !.kids[1] =
                              FoldLeft(Element, @, [i \in 1..list.n |-> i - 1])], TRUE)

(* Keys are never null.  A struct on either side is appended field by      *)
(* field.                                                                  *)
append_map_elements(dt, map_builder, map) ==
    LET f == append_map_element[dt.key.t][dt.value.t]
        KeyArray == IF f.from = "keys" THEN map.keys ELSE map.values
        Key(b, i) ==
            IF dt.key.t = "Struct" THEN AppendStruct(dt.key, b, FALSE, KeyArray, i)
            ELSE AppendScalar(b, f.key[1], FALSE, KeyArray, i, dt.key)
        Value(b, i) ==
            LET null == is_null_at_array(map.values, i) IN
            IF dt.value.t = "Struct" THEN AppendStruct(dt.value, b, null, map.values, i)
            ELSE AppendScalar(b, f.value[1], null, map.values, i, dt.value)
        d == Downcast(map_builder, <<"MapBuilder">> \o ArmOf(append_map_elements_map, dt))
        indices == [i \in 1..map.keys.n |-> i - 1]
    IN  IF map.panic \/ d = Panic THEN Panic
        ELSE append_entry([d EXCEPT !.kids = <<FoldLeft(Key, @[1], indices),
                                               FoldLeft(Value, @[2], indices)>>], TRUE)

(* One column of the rows row_start..row_end-1                             *)
append_columns(rows, row_start, row_end, schema, column_idx, builder, ratio) ==
    LET dt == schema[column_idx + 1]
        type == IF dt.t \in {"Utf8", "Binary"} /\ ratio > 10
                THEN DictionaryBuilder(dt.t).b ELSE BuilderOf(dt.t)
        AppendRow(b, i) ==
            LET row  == point_to(new_with_num_fields(Len(schema)),
                                 rows[i].mem, rows[i].addr, rows[i].size)
                null == is_null_at_row(row, column_idx)
            IN  CASE dt.t \in Scalars -> AppendScalar(b, type, null, row, column_idx, dt)
                  [] dt.t = "Struct"  -> AppendStruct(dt, b, null, row, column_idx)
                  [] dt.t = "Map"  -> AppendMap(append_columns_map, dt, b, null, row, column_idx)
                  [] dt.t = "List"    -> AppendList(dt, b, null, row, column_idx)
    IN  FoldLeft(AppendRow, builder, [i \in 1..(row_end - row_start) |-> row_start + i])

-----------------------------------------------------------------------------
(* The finished array: a dictionary column stays one only when its keys    *)
(* outnumber its values by more than the ratio, and is cast to a plain     *)
(* array otherwise.                                                        *)
Keep(dict, ratio) == Len(dict.vals) * 10 > Len(dict.kids[1].vals) * ratio

builder_to_array(builder, dt, ratio) ==
    IF dt.t \in {"Utf8", "Binary"} /\ ratio > 10 /\ ~Keep(builder, ratio)
    THEN [Builder(BuilderOf(dt.t), <<>>) EXCEPT !.vals =
             [i \in DOMAIN builder.vals |->
                 IF builder.vals[i] = <<>> THEN <<>>
                 ELSE builder.kids[1].vals[builder.vals[i][1][1]]]]
    ELSE builder

(* Arrow's view of entry i of an array                                     *)
RECURSIVE ValueAt(_, _)
ValueAt(a, i) ==
    LET Entries(kid, first, last) == [j \in 1..(last - first) |-> ValueAt(kid, first + j)]
        first == IF i = 1 THEN 0 ELSE a.vals[i - 1][2]
    IN  CASE a.b \in {"StringDictionaryBuilder", "BinaryDictionaryBuilder"} ->
                IF a.vals[i] = <<>> THEN <<>> ELSE a.kids[1].vals[a.vals[i][1][1]]
          [] a.b = "StructBuilder" ->
                IF a.vals[i] = <<>> THEN <<>>
                ELSE << [j \in DOMAIN a.kids |-> ValueAt(a.kids[j], i)] >>
          [] a.b = "ListBuilder" ->
                IF a.vals[i][1] = 0 THEN <<>>
                ELSE <<Entries(a.kids[1], first, a.vals[i][2])>>
          [] a.b = "MapBuilder" ->
                IF a.vals[i][1] = 0 THEN <<>>
                ELSE << <<Entries(a.kids[1], first, a.vals[i][2]),
                          Entries(a.kids[2], first, a.vals[i][2])>> >>
          [] OTHER -> a.vals[i]

(* What finish() asserts of a builder: the fields of a struct are as long  *)
(* as the struct, a list or a map ends where its children end              *)
RECURSIVE Aligned(_)
Aligned(b) ==
    /\ \A i \in DOMAIN b.kids : Aligned(b.kids[i])
    /\ b.b = "StructBuilder" =>
         \A i \in DOMAIN b.kids : Len(b.kids[i].vals) = Len(b.vals)
    /\ b.b \in {"ListBuilder", "MapBuilder"} =>
         \A i \in DOMAIN b.kids :
            Len(b.kids[i].vals) = IF b.vals = <<>> THEN 0 ELSE Last(b.vals)[2]
=============================================================================

---------------------------- MODULE MCColumnScan ----------------------------
(* Columns of every type the readers know, in chunks of six rows.  Four     *)
(* representative types meet every layout and null pattern; the others one  *)
(* plain and one dictionary layout.                                         *)
EXTENDS ColumnScan

MCSwitchDay == -6
MCSwitchTs  == -100

Desc(physical, logical) ==
    [physical |-> physical, logical |-> logical, bits |-> 32, signed |-> TRUE, unit |-> "MICROS",
     length |-> 0, precision |-> 0, scale |-> 0, max_def |-> 1]

Promo(physical) == [physical |-> physical, precision |-> 0, scale |-> 0, bits |-> 32]

DecimalPromo(p, s) == [physical |-> "FLBA", precision |-> p, scale |-> s, bits |-> 32]

Type(desc, promo, spark, values) ==
    [desc |-> desc, promo |-> promo, spark |-> spark, use_decimal_128 |-> FALSE, legacy |-> TRUE,
     values |-> values]

Annotated(bits, signed) == [Desc("INT32", "Integer") EXCEPT !.bits = bits, !.signed = signed]

DecimalDesc(physical, length, p, s) ==
    [Desc(physical, "Decimal") EXCEPT !.length = length, !.precision = p, !.scale = s]

With128(type) == [type EXCEPT !.use_decimal_128 = TRUE]

Strict(type) == [type EXCEPT !.legacy = FALSE]

----------------------------------------------------------------------------

TInt32  == Type(Desc("INT32", "none"), Promo("INT32"), "int", <<-8, 7, 3>>)
TBool   == Type(Desc("BOOLEAN", "none"), Promo("BOOLEAN"), "boolean", <<1, 0, 1>>)
TString == Type(Desc("BYTE_ARRAY", "String"), Promo("BYTE_ARRAY"), "binary", <<<<>>, <<1, 0>>, <<1, 1>>>>)
TDec    == With128(Type(DecimalDesc("INT32", 0, 1, 0), DecimalPromo(4, 2), "decimal", <<2, -2, 1>>))

Representative == {TInt32, TBool, TString, TDec}

\* Types whose vector survives the fall-back from dictionary to plain pages.
Stable ==
    { Type(Annotated(8, TRUE), [Promo("INT32") EXCEPT !.bits = 8], "byte", <<-1, 0, -1>>),
      Type(Annotated(8, TRUE), [Promo("INT32") EXCEPT !.bits = 16], "short", <<-1, 0, -1>>),
      Type(Annotated(16, TRUE), Promo("INT32"), "int", <<-2, 1, 0>>),
      Type(Annotated(8, FALSE), Promo("INT32"), "short", <<1, 0, 1>>),
      Type(Annotated(16, FALSE), Promo("INT32"), "int", <<3, 2, 0>>),
      Type(Annotated(32, FALSE), Promo("INT64"), "long", <<15, 8, 1>>),
      Type(Annotated(32, TRUE), Promo("INT32"), "int", <<-8, 5, 0>>),
      Type(Desc("INT64", "none"), Promo("INT64"), "long", <<-128, 127, 1>>),
      Type([Desc("INT64", "Integer") EXCEPT !.signed = FALSE, !.bits = 64], DecimalPromo(6, 0),
           "decimal", <<255, 128, 1>>),
      Type(Desc("INT64", "Timestamp"), Promo("INT64"), "long", <<-128, 127, 0>>),
      Type([Desc("INT64", "Timestamp") EXCEPT !.unit = "MILLIS"], Promo("INT64"), "long", <<-40, 40, 0>>),
      Type([Desc("INT64", "Timestamp") EXCEPT !.unit = "NANOS"], Promo("INT64"), "long", <<-128, 127, 0>>),
      Strict(Type(Desc("INT64", "Timestamp"), Promo("INT64"), "long", <<-101, 127, -100>>)),
      Type(Desc("INT96", "none"), Promo("INT96"), "long", <<<<0, 0>>, <<4, 7>>, <<3, 1>>>>),
      Type(Desc("INT32", "Date"), Promo("INT32"), "int", <<-8, 7, 0>>),
      Strict(Type(Desc("INT32", "Date"), Promo("INT32"), "int", <<-7, 7, -6>>)),
      Type(Desc("FLOAT", "none"), Promo("FLOAT"), "float", <<-8, 7, 1>>),
      Type(Desc("DOUBLE", "none"), Promo("DOUBLE"), "double", <<-128, 127, 1>>),
      Type(Desc("BYTE_ARRAY", "none"), Promo("BYTE_ARRAY"), "binary", <<<<0, 1, 1>>, <<>>, <<1>>>>),
      Type([Desc("FLBA", "none") EXCEPT !.length = 3], Promo("FLBA"), "binary",
           <<<<0, 1, 1>>, <<1, 0, 0>>, <<1, 1, 1>>>>),
      Type(DecimalDesc("FLBA", 3, 1, 0), DecimalPromo(1, 0), "decimal", <<2, -2, 1>>),
      Type(DecimalDesc("FLBA", 3, 2, 1), DecimalPromo(3, 2), "decimal", <<3, -4, 1>>),
      With128(Type(DecimalDesc("FLBA", 6, 4, 1), DecimalPromo(4, 1), "decimal", <<31, -32, 1>>)),
      With128(Type(DecimalDesc("FLBA", 6, 4, 1), DecimalPromo(6, 2), "decimal", <<31, -32, 1>>)),
      With128(Type(DecimalDesc("INT64", 0, 4, 1), DecimalPromo(5, 1), "decimal", <<80, -80, 1>>)),
      Type(Desc("INT64", "none"), DecimalPromo(5, 1), "decimal", <<80, -80, 1>>) }

\* Types read wider than they are stored.
Promoted ==
    { Type(Desc("INT32", "none"), Promo("INT64"), "long", <<-8, 7, 3>>),
      Type(Desc("INT32", "none"), Promo("DOUBLE"), "double", <<-8, 7, 3>>),
      Type(Annotated(16, TRUE), Promo("DOUBLE"), "double", <<-2, 1, 0>>),
      Type(Annotated(8, TRUE), Promo("INT64"), "long", <<-1, 0, -1>>),
      Type(Desc("FLOAT", "none"), Promo("DOUBLE"), "double", <<-8, 7, 3>>),
      Type(Desc("INT32", "Date"), Promo("INT64"), "long", <<-6, 7, 0>>),
      Type(DecimalDesc("INT32", 0, 1, 0), DecimalPromo(3, 1), "decimal", <<2, -2, 1>>),
      Type(DecimalDesc("INT64", 0, 3, 0), DecimalPromo(4, 1), "decimal", <<20, -20, 1>>),
      Type(Desc("INT32", "none"), DecimalPromo(4, 1), "decimal", <<7, -8, 1>>) }

----------------------------------------------------------------------------
(* Layouts and rows.                                                        *)

P(rows, encoding, form, v2) == [rows |-> rows, encoding |-> encoding, form |-> form, v2 |-> v2]

PlainPages    == <<P(2, "PLAIN", "mixed", FALSE), P(4, "PLAIN", "packed", FALSE)>>
ShortPages    == <<P(1, "PLAIN", "rle", TRUE), P(1, "PLAIN", "packed", TRUE),
                   P(1, "PLAIN", "rle", FALSE), P(3, "PLAIN", "mixed", FALSE)>>
DictPages     == <<P(2, "PLAIN_DICTIONARY", "packed", FALSE), P(1, "PLAIN_DICTIONARY", "rle", FALSE),
                   P(3, "PLAIN_DICTIONARY", "mixed", FALSE)>>
OneDictPage   == <<P(6, "RLE_DICTIONARY", "mixed", TRUE)>>
FallbackPages == <<P(2, "RLE_DICTIONARY", "packed", TRUE), P(1, "RLE_DICTIONARY", "rle", TRUE),
                   P(3, "PLAIN", "mixed", TRUE)>>

Patterns == {<<1, 2, 0, 3, 1, 2>>, <<0, 0, 1, 1, 3, 3>>, <<3, 3, 3, 2, 0, 1>>}

Rows(type, pattern) ==
    [i \in 1..Len(pattern) |-> IF pattern[i] = 0 THEN <<>> ELSE <<type.values[pattern[i]]>>]

Col(type, kinds, rows, pages, pairs) ==
    [desc |-> type.desc, promo |-> type.promo, spark |-> type.spark,
     use_decimal_128 |-> type.use_decimal_128, legacy |-> type.legacy,
     kinds |-> kinds, rows |-> rows, pages |-> pages, pairs |-> pairs]

Chunk(type, pattern, pages) == Col(type, {"eager", "lazy"}, Rows(type, pattern), pages, <<>>)

Required(type) == [type EXCEPT !.desc.max_def = 0]

Constant(type, value) == Col(type, {"const"}, <<value>>, <<>>, <<>>)

TFlba == Type(DecimalDesc("FLBA", 16, 5, 1), DecimalPromo(5, 1), "decimal", <<>>)

MCColumns ==
    {Chunk(type, pattern, pages) :
        type \in Representative, pattern \in Patterns,
        pages \in {PlainPages, ShortPages, DictPages, OneDictPage, FallbackPages}}
    \union {Chunk(type, <<1, 2, 0, 3, 1, 2>>, pages) : type \in Stable, pages \in {ShortPages, FallbackPages}}
    \union {Chunk(type, <<1, 2, 0, 3, 1, 2>>, pages) : type \in Promoted, pages \in {ShortPages, DictPages}}
    \union {Chunk(Required(TInt32), <<1, 2, 3, 3, 1, 2>>, pages) : pages \in {ShortPages, FallbackPages}}
    \union {Constant(TInt32, <<-3>>), Constant(TBool, <<1>>), Constant(TString, <<<<1, 0>>>>),
            Constant(TFlba, <<-5>>), Constant(TInt32, <<>>), Constant(TString, <<>>)}
    \union {Col(Type(Desc("INT64", "none"), Promo("INT64"), "long", <<>>), {"index"}, <<>>, <<>>,
                <<<<4, 2>>, <<9, 1>>, <<20, 4>>>>),
            Col(TBool, {"delete"}, <<<<1>>, <<0>>, <<1>>, <<1>>, <<0>>, <<0>>>>, <<>>, <<>>)}

\* Promoted columns whose writer gave up its dictionary in the middle.
MCFallbackColumns == {Chunk(type, <<1, 2, 0, 3, 1, 2>>, FallbackPages) : type \in Promoted}
=============================================================================

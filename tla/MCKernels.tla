------------------------------ MODULE MCKernels ------------------------------
(* Calls of the kernels for TLC: one initial state for each of them. *)
EXTENDS Sorting, Schemas, Casts

\* The validities of an array of n rows: none, without nulls, and some with.
Bits1 == {NoValidity, << TRUE >>, << FALSE >>}
Bits2 == {NoValidity, << TRUE, FALSE >>, << TRUE, TRUE >>}

NumbersOf(values, bits) == {PrimitiveOf(v, b) : v \in values, b \in bits}

LeastInt == -16

NoNumbers == PrimitiveOf(<< >>, NoValidity)
OneNumber == PrimitiveOf(<< 1 >>, NoValidity)
-----------------------------------------------------------------------------
Singles == NumbersOf({<< x >> : x \in MinInt .. MaxInt}, Bits1)

\* The values at which an operation on two numbers is at a limit, with every validity.
Limits == NumbersOf({<< x >> : x \in {MinInt, -1, 0, 1, MaxInt}}, Bits1)
Values == NumbersOf({<< x >> : x \in MinInt .. MaxInt}, {NoValidity})
Couples == NumbersOf({<< MinInt, 1 >>, << MaxInt, -1 >>, << 0, 2 >>}, Bits2)

Operators == {"add", "sub", "mul", "div", "rem"}

SomeArithmetic ==
  UNION {[kernel : {"arithmetic"}, op : {op}, flavour : FlavoursOf(op), left : arrays, right : arrays] :
           op \in Operators, arrays \in {Values, Limits, Couples, {NoNumbers, OneNumber}}}
  \cup UNION {[kernel : {"arithmetic_scalar"}, op : {op}, flavour : FlavoursOf(op),
               left : Values, right : Ints] : op \in Operators}
  \cup UNION {[kernel : {"arithmetic_scalar"}, op : {op}, flavour : FlavoursOf(op),
               left : Limits \cup Couples \cup {NoNumbers}, right : {MinInt, -1, 0, 1, 2, MaxInt}] : op \in Operators}
  \cup [kernel : {"arithmetic_scalar"}, op : {"neg"}, flavour : FlavoursOf("neg"), left : Singles \cup Couples, right : {0}]
  \cup [kernel : {"arithmetic_scalar"}, op : {"pow"}, flavour : {"checked"}, left : Singles \cup Couples, right : 0 .. 3]

ASSUME SomeArithmetic \subseteq ArithmeticCalls

ArithmeticCall == call \in SomeArithmetic
-----------------------------------------------------------------------------
DecimalTypes == {Decimal(3, 0), Decimal(3, 1), Decimal(2, 1), Decimal(1, 1)}

OneDecimal(t) == NumbersOf({<< x >> : x \in -MaxValue(t.precision) .. MaxValue(t.precision)}, {NoValidity})
TwoDecimals(t) == NumbersOf({<< MaxValue(t.precision), 1 >>, << -1, 0 >>}, Bits2)

CallDecimals(kernel, op, flavours, lefts, rights, l, r) ==
  call \in [kernel : {kernel}, op : {op}, flavour : flavours, left : lefts, right : rights,
            leftType : {l}, rightType : {r}]

DecimalCall ==
  \/ \E op \in Operators \ {"rem"}, t \in DecimalTypes :
       \/ CallDecimals("decimal", op, DecimalFlavours, OneDecimal(t), OneDecimal(t), t, t)
       \/ CallDecimals("decimal", op, DecimalFlavours, TwoDecimals(t), TwoDecimals(t), t, t)
  \/ \E op \in Operators \ {"rem"}, l \in DecimalTypes, r \in DecimalTypes :
       \/ CallDecimals("adaptive", op, {"plain"}, OneDecimal(l), OneDecimal(r), l, r)
       \/ CallDecimals("adaptive", op, {"plain"}, TwoDecimals(l), TwoDecimals(r), l, r)
  \/ \E op \in {"mul", "div"}, t \in DecimalTypes :
       CallDecimals("decimal_scalar", op, {"plain"}, OneDecimal(t) \cup TwoDecimals(t),
                    {Null} \cup (-MaxValue(t.precision) .. MaxValue(t.precision)), t, t)
  \/ CallDecimals("decimal", "add", {"plain"}, {OneNumber}, {NoNumbers, OneNumber}, Decimal(3, 0), Decimal(3, 1))
  \/ CallDecimals("adaptive", "add", {"plain"}, {OneNumber}, {NoNumbers}, Decimal(3, 0), Decimal(3, 1))
-----------------------------------------------------------------------------
TimeTypes ==
  {Temporal("Timestamp", u) : u \in Units} \cup {Temporal("Time32", "Second"), Temporal("Time64", "Nanosecond"),
    Temporal("Date32", "None"), Temporal("Date64", "None")}

Moments == NumbersOf({<< 0 >>, << 1 >>, << -3 >>}, {NoValidity}) \cup NumbersOf({<< 5, -2 >>}, Bits2)
Lasting == NumbersOf({<< x >> : x \in MinInt .. MaxInt}, {NoValidity}) \cup NumbersOf({<< -1, 3 >>}, Bits2)

SameLengths(S, T) == {p \in S \X T : SameLength(p[1], p[2])}

TimeCall ==
  \E l \in TimeTypes, u \in Units :
    LET r == Temporal("Duration", u)
        t == Temporal("Timestamp", u)
        Call(kernel, op, a, b, type) ==
          call = [kernel |-> kernel, op |-> op, left |-> a, right |-> b, leftType |-> l, rightType |-> type]
    IN  \/ \E p \in SameLengths(Moments, Lasting) :
             \/ \E op \in {"add", "sub"} : Call("time", op, p[1], p[2], r)
             \/ l.class = "Timestamp" /\ Call("time", "difference", p[1], p[2], t)
        \/ \E a \in Moments, s \in {Null, -7, 3} :
             \/ \E op \in {"add", "sub"} : Call("time_scalar", op, a, s, r)
             \/ l.class = "Timestamp" /\ Call("time_scalar", "difference", a, s, t)
-----------------------------------------------------------------------------
Truths(bits) ==
  {BooleanOf(v, b) : v \in {<< x, y >> : x, y \in BOOLEAN}, b \in bits \cup {<< FALSE, TRUE >>, << FALSE, FALSE >>}}

NoTruths == BooleanOf(<< >>, NoValidity)
ThreeTruths == BooleanOf(<< TRUE, FALSE, TRUE >>, << FALSE, TRUE, TRUE >>)

SomeLogic ==
  [kernel : {"logic"}, op : {"and", "or"}, kleene : BOOLEAN, left : Truths(Bits2), right : Truths(Bits2) \cup {NoTruths}]
  \cup [kernel : {"logic_scalar"}, op : {"and", "or"}, kleene : BOOLEAN,
         left : Truths(Bits2) \cup {NoTruths}, right : {TRUE, FALSE, Null}]
  \cup [kernel : {"logic_unary"}, op : {"not", "is_null", "is_not_null"}, left : Truths(Bits2)]
  \cup [kernel : {"logic_whole"}, op : {"any", "all"}, left : Truths(Bits2) \cup {NoTruths, ThreeTruths}]

ASSUME SomeLogic \subseteq LogicCalls

LogicCall == call \in SomeLogic
-----------------------------------------------------------------------------
StringsLeaf(kind, values, offsets, bits) ==
  [kind |-> kind, values |-> values, offsets |-> offsets, validity |-> bits]

\* Arrays of three rows, of each kind; what is behind a null differs from the default.
Bits3 == {NoValidity, << TRUE, FALSE, TRUE >>, << FALSE, TRUE, TRUE >>}

Numbers3 == NumbersOf({<< 3, 1, 2 >>}, Bits3)
Truths3 == {BooleanOf(<< TRUE, FALSE, TRUE >>, b) : b \in Bits3}
Strings3 == {StringsLeaf("utf8", << 1, 2, 3, 4 >>, << 1, 1, 2, 4 >>, b) : b \in Bits3}

OfLeaf(leaf) ==
  [kind |-> leaf.kind, leaves |-> << leaf >>, offsets |-> << >>, validity |-> NoValidity, types |-> << >>]

OfLeaves(kind, leaves, offsets, bits) ==
  [kind |-> kind, leaves |-> leaves, offsets |-> offsets, validity |-> bits, types |-> << >>]

Dictionaries == {OfLeaves("dictionary", << keys, TheStrings >>, << >>, NoValidity) :
                   keys \in NumbersOf({<< 2, 0, 1 >>}, Bits3), TheStrings \in Strings3}

Lists == {OfLeaves("list", << n >>, << 0, 2, 2, 3 >>, b) : n \in Numbers3, b \in Bits3}

Structs == {OfLeaves("struct", << l, s >>, << >>, b) :
              l \in {t \in Truths3 : t.validity = NoValidity \/ t.validity[1]}, s \in {t \in Strings3 : t.validity = NoValidity \/ ~t.validity[1]},
              b \in Bits3}

Leaves(S) == {OfLeaf(l) : l \in S}

\* One set for each kind.
Arrays3 == << Leaves(Numbers3), Leaves(Truths3), Leaves(Strings3), Dictionaries, Lists, Structs >>

Masks3 == {BooleanOf(v, b) : v \in {<< x, y, z >> : x, y, z \in BOOLEAN}, b \in Bits3}

SomeMasks == {BooleanOf(<< TRUE >>, NoValidity), BooleanOf(<< TRUE, FALSE >>, << TRUE, FALSE >>),
              BooleanOf(<< FALSE, FALSE, FALSE, TRUE >>, NoValidity), BooleanOf(<< FALSE >>, NoValidity)}

Numbers5 == {OfLeaf(PrimitiveOf(<< 5, 4, 3, 2, 1 >>, b)) : b \in {NoValidity, << TRUE, FALSE, FALSE, TRUE, TRUE >>}}
Masks5 == {BooleanOf(v, NoValidity) : v \in [1 .. 5 -> BOOLEAN]}

FixedLists == {OfLeaves("fixed", << PrimitiveOf(<< 1, 2 >>, NoValidity) >>, << >>, NoValidity)}

ManyIndices ==
  NumbersOf({<< 0 >>, << 2, 0, 2 >>}, {NoValidity}) \cup {NoNumbers}
    \cup NumbersOf({<< 0, 3, 1 >>, << 4, 1, 0 >>, << 2, 1, 0 >>}, Bits3)

SelectionOf(arrays) ==
  \/ call \in [kernel : {"take"}, array : arrays, indices : ManyIndices, spare : {<< >>, << TRUE >>, << FALSE >>}]
  \/ call \in [kernel : {"filter"}, array : arrays, mask : Masks3 \cup SomeMasks]
  \/ call \in [kernel : {"limit"}, array : arrays, offset : 0 .. 4]
  \/ call \in [kernel : {"shift"}, array : arrays, offset : {MinInt} \cup -4 .. 4]
  \/ call \in [kernel : {"if_then_else"}, mask : Masks3 \cup SomeMasks, left : arrays, right : arrays]
  \/ call \in [kernel : {"concatenate"}, arrays : {<< >>} \cup {<< a, b >> : a, b \in arrays}]

SelectionCall ==
  \/ \E n \in DOMAIN Arrays3 : SelectionOf(Arrays3[n])
  \/ call \in [kernel : {"take"}, array : FixedLists, indices : ManyIndices, spare : {<< >>}]
  \/ call \in [kernel : {"filter"}, array : Numbers5, mask : Masks5]
  \/ call \in [kernel : {"filter_chunk"}, mask : Masks3 \cup SomeMasks, arrays : {<< n >> : n \in Leaves(Numbers3)}]
  \/ call \in [kernel : {"filter_chunk"}, mask : Masks3 \cup SomeMasks,
               arrays : {<< n, l >> : n \in Leaves(Numbers3), l \in Lists}]
  \/ call \in [kernel : {"if_then_else"}, mask : {ThreeTruths}, left : Leaves(Numbers3), right : Leaves({OneNumber})]
  \/ call \in [kernel : {"if_then_else"}, mask : {ThreeTruths}, left : Leaves(Numbers3), right : Leaves(Truths3)]
  \/ call \in [kernel : {"concatenate"}, arrays : {<< a, b >> : a \in Leaves(Numbers3), b \in Leaves(Strings3)}]
-----------------------------------------------------------------------------
Comparisons_ == {"eq", "neq", "lt", "lt_eq", "gt", "gt_eq"}

OtherNumbers == NumbersOf({<< 3, 2, -1 >>}, Bits3)
OtherStrings == {StringsLeaf("utf8", << 3, 2, 2, 3 >>, << 0, 1, 2, 4 >>, b) : b \in Bits3}
OtherTruths == {BooleanOf(<< x, y, TRUE >>, b) : x, y \in BOOLEAN, b \in Bits3}

Compared(op, l, r) ==
  call \in [kernel : {"compare"}, op : {op}, andValidity : IF op \in {"eq", "neq"} THEN BOOLEAN ELSE {FALSE}, left : l, right : r]

ComparedScalar(op, l, type, values) ==
  call \in [kernel : {"compare_scalar"}, op : {op}, andValidity : IF op \in {"eq", "neq"} THEN BOOLEAN ELSE {FALSE},
            array : l, scalar : [type : {type}, value : values \cup {Null}]]

ComparisonCall ==
  \/ \E op \in Comparisons_ :
       \/ Compared(op, Numbers3, OtherNumbers \cup {OneNumber})
       \/ Compared(op, Numbers3, {ThreeTruths})
       \/ Compared(op, Truths3 \cup OtherTruths, OtherTruths)
       \/ Compared(op, Strings3, OtherStrings)
       \/ ComparedScalar(op, Leaves(Numbers3), "primitive", {0, 2})
       \/ ComparedScalar(op, Leaves(Truths3), "boolean", BOOLEAN)
       \/ ComparedScalar(op, Leaves(Strings3), "utf8", {<< >>, << 2 >>, << 3 >>, << 3, 4 >>})
       \/ ComparedScalar(op, Dictionaries, "dictionary", {<< 2 >>})
       \/ ComparedScalar(op, Dictionaries, "utf8", {<< 2 >>})
  \/ call \in [kernel : {"nullif"}, left : Numbers3, right : OtherNumbers \cup {OneNumber}]
  \/ call \in [kernel : {"nullif"}, left : Truths3, right : Truths3]
  \/ call \in [kernel : {"nullif_scalar"}, left : Numbers3, scalar : [type : {"primitive"}, value : {1, Null}]]
  \/ call \in [kernel : {"nullif_scalar"}, left : Truths3, scalar : [type : {"primitive", "boolean"}, value : {TRUE}]]
  \/ call \in [kernel : {"nullif"}, left : Numbers3, right : Truths3]
  \/ call \in [kernel : {"contains"}, array : Lists, right : OtherNumbers \cup NumbersOf({<< 1, 3, 2 >>}, Bits3) \cup {OneNumber}]
  \/ call \in [kernel : {"contains"}, array : Lists, right : Truths3]
-----------------------------------------------------------------------------
SortBits == Bits3 \cup {<< FALSE, FALSE, TRUE >>, << FALSE, FALSE, FALSE >>}

Unsorted == NumbersOf({<< 3, 1, 2 >>, << 2, 1, 2 >>}, SortBits)
SortedLeaves ==
  << Leaves(Unsorted \cup NumbersOf({<< 2, 4, 1, 3 >>}, {NoValidity, << TRUE, FALSE, TRUE, TRUE >>})),
     Leaves({BooleanOf(v, b) : v \in {<< TRUE, FALSE, TRUE >>, << TRUE, TRUE, FALSE >>}, b \in SortBits}),
     Leaves({StringsLeaf("utf8", << 2, 1, 2, 2 >>, os, b) : os \in {<< 0, 1, 2, 4 >>, << 0, 1, 1, 2 >>}, b \in SortBits}),
     {OfLeaves("dictionary", << keys, StringsLeaf("utf8", << 2, 1 >>, << 0, 1, 1, 2 >>, NoValidity) >>, << >>, NoValidity) :
        keys \in NumbersOf({<< 2, 0, 1 >>, << 0, 2, 0 >>}, SortBits)},
     {OfLeaves("dictionary", << n, n >>, << >>, NoValidity) : n \in NumbersOf({<< 0, 1, 0 >>}, {NoValidity})},
     {OfLeaves("list", << PrimitiveOf(<< 2, 1, 2, 2 >>, NoValidity) >>, os, b) :
        os \in {<< 0, 1, 2, 4 >>, << 0, 2, 2, 3 >>}, b \in SortBits},
     {OfLeaves("fixed", << PrimitiveOf(<< 2, 2, 1, 3, 2, 1 >>, NoValidity) >>, << >>, b) : b \in SortBits},
     Structs, {OfLeaves("list", << TheStrings >>, << 0, 1, 3, 3 >>, NoValidity) : TheStrings \in Strings3} >>

SomeOptions == [descending : BOOLEAN, nullsFirst : BOOLEAN]

Column(arrays) == [array : arrays, options : SomeOptions]

FirstColumn == Column(Leaves(NumbersOf({<< 2, 1, 2 >>}, SortBits)))
SecondColumn ==
  Column(Leaves({StringsLeaf("utf8", << 2, 1, 2 >>, << 0, 1, 2, 3 >>, b) : b \in Bits3}))
    \cup Column(Leaves({BooleanOf(<< TRUE, FALSE, FALSE >>, b) : b \in Bits3}))

\* Columns whose rows are in order.
InOrder(columns) == \A i \in 1 .. 3, j \in 1 .. 3 : i < j => ~LexLess(columns, j, i)

SortingCall ==
  \/ \E n \in DOMAIN SortedLeaves :
       call \in [kernel : {"sort", "sort_to_indices"}, array : SortedLeaves[n], options : SomeOptions, limit : 0 .. 4]
  \/ call \in [kernel : {"lexsort"}, columns : {<< c, d >> : c \in FirstColumn, d \in SecondColumn}, limit : {0, 2, 4}]
  \/ call \in [kernel : {"lexsort", "partition"}, columns : {<< >>}, limit : {1}]
  \/ call \in [kernel : {"lexsort"}, columns : {<< c >> : c \in SecondColumn \cup Column(Structs)}, limit : {2}]
  \/ call \in [kernel : {"lexsort", "partition"}, limit : {2}, columns : {<< c, d >> : c \in FirstColumn, d \in Column(Lists \cup Leaves({OneNumber}))}]
  \/ /\ call \in [kernel : {"partition"}, limit : {0}, columns : {<< c, d >> : d \in SecondColumn,
           c \in Column(Leaves(NumbersOf({<< 1, 1, 2 >>, << 2, 2, 2 >>, << 2, 1, 1 >>}, SortBits)))}]
     /\ InOrder(call.columns)
-----------------------------------------------------------------------------
(* Fields converted to other formats and back *)

Of1(id, word) == Type(id, << word >>, << >>)

LeafTypes ==
  {Plain(id) : id \in {"Null", "Boolean", "Int8", "UInt8", "Int32", "Int64", "UInt64", "Float16", "Float32", "Binary", "LargeBinary",
                       "Utf8", "LargeUtf8", "Date32", "Date64"}}
  \cup {Of1("Time32", u) : u \in {"s", "ms", "us"}} \cup {Of1("Time64", u) : u \in {"ms", "us", "ns"}}
  \cup {Of1("Duration", "s"), Of1("Interval", "DayTime"), Of1("Interval", "MonthDayNano")}
  \cup {Type("Timestamp", << u, tz >>, << >>) : u \in {"s", "ms", "us"}, tz \in {Missing, "", "+00:00", "CET"}}
  \cup {Type("Decimal", << >>, << p, 1 >>) : p \in {9, 18, 38}} \cup {Type("FixedSizeBinary", << >>, << 2 >>)}

Tag == [k \in {"tag"} |-> "x"]

\* The types with t in them; what is beside it is an integer.
Around(t) ==
  LET item == Field("item", t, TRUE)
      other == WithMetadata(Field("other", Plain("Int32"), FALSE), Tag)
  IN  {With(Plain("List"), << item >>), With(Plain("LargeList"), << Field("element", t, FALSE) >>),
       With(Type("FixedSizeList", << >>, << 2 >>), << item >>), With(Of1("Map", "sorted"), << item >>),
       With(Plain("Struct"), << item >>), With(Plain("Struct"), << item, other >>),
       With(Type("Union", << "dense", Missing >>, << >>), << item >>),
       With(Type("Union", << "sparse", "ids" >>, << 5, 3 >>), << other, item >>),
       Dictionary("Int8", t, "unsorted"), Dictionary("UInt32", t, "sorted"),
       Extension("name", t, Missing), Extension("name", t, "about")}

EmptyTypes == {Plain("Struct"), Type("Union", << "dense", Missing >>, << >>), Type("Union", << "dense", "ids" >>, << >>)}

\* Fields around one of these are nullable and have metadata too; the nested are taken in two others.
Innermost == {Plain("Int32"), Plain("LargeUtf8"), Plain("Null"), Of1("Time32", "ms"), Dictionary("Int8", Plain("Utf8"), "unsorted")}
Nested == {Plain("Int32"), Dictionary("Int8", Plain("Utf8"), "unsorted")}

OnceAround(S) == UNION {Around(t) : t \in S}

SchemaFields ==
  {Field("f", t, b) : t \in LeafTypes \cup EmptyTypes \cup OnceAround(LeafTypes \cup EmptyTypes) \cup OnceAround(OnceAround(Nested)),
                      b \in {FALSE}}
  \cup {Field("f", t, TRUE) : t \in LeafTypes \cup OnceAround(Innermost)}
  \cup {WithMetadata(Field("f", t, TRUE), Tag) : t \in OnceAround(Innermost)}
  \cup {Field("f", With(Plain("Struct"), << Field("a", t, TRUE), Field("b", s, FALSE) >>), FALSE) : t \in OnceAround({Plain("Int32"), Dictionary("Int8", Plain("Utf8"), "unsorted")}), s \in Around(Plain("Null"))}

\* Three dictionaries, two of them side by side.
ThreeDictionaries ==
  LET d == Dictionary("Int8", Plain("Utf8"), "unsorted")
  IN  Field("f", With(Plain("Struct"), << Field("a", With(Plain("List"), << Field("b", d, TRUE) >>), TRUE),
                                          Field("c", With(Plain("Struct"), << Field("d", d, TRUE), Field("e", d, TRUE) >>), TRUE) >>), TRUE)

Formats == {"ipc", "c", "json", "json object", "json pairs", "avro", "parquet", "parquet with schema"}
-----------------------------------------------------------------------------
(* Parquet types that other implementations write *)

Repetitions == {"required", "optional", "repeated"}

\* Annotations, those that the format does not have for the type included.
ForeignLeaves ==
  {Annotated("p", r, Plain(id), l, c, << >>) :
     r \in {"optional"}, id \in {"Int32", "Int64"},
     l \in {Unannotated, Of1("Integer", "Int8"), Of1("Integer", "UInt64"), Type("Decimal", << >>, << 9, 1 >>), Plain("Date"),
            Of1("Time", "ms"), Of1("Time", "us"), Type("Timestamp", << "utc", "us" >>, << >>)},
     c \in {Unannotated, Plain("Int16"), Plain("UInt64"), Plain("Date"), Plain("TimeMillis"), Plain("TimeMicros"),
            Plain("TimestampMillis"), Type("Decimal", << >>, << 9, 1 >>)}}
  \cup {Annotated("p", "required", Plain("ByteArray"), l, c, << >>) :
          l \in {Unannotated, Plain("String"), Plain("Json"), Plain("Enum")}, c \in {Unannotated, Plain("Utf8"), Plain("Bson")}}
  \cup {Annotated("p", "repeated", p, Unannotated, c, << >>) :
          p \in {Plain("Int96"), Plain("Boolean"), Plain("Float32"), Type("FixedLenByteArray", << >>, << 12 >>)},
          c \in {Unannotated, Plain("Interval")}}

Number(r) == Annotated("n", r, Plain("Int32"), Unannotated, Unannotated, << >>)

Columnless == Group("empty", "optional", Unannotated, << >>)
SomeTypes == {Number("required"), Columnless, Group("array", "optional", Unannotated, << Number("optional"), Columnless >>)}

Items ==
  {Group(name, "repeated", Unannotated, fields) :
     name \in {"list", "array", "g_tuple", "item"}, fields \in {<< s >> : s \in SomeTypes} \cup {<< s, t >> : s, t \in SomeTypes}}
  \cup {Number("repeated")}

ListGroups ==
  {[Group("g", r, l, << item >>) EXCEPT !.converted = c] :
     r \in Repetitions, item \in Items, l \in {Unannotated, Plain("List"), Plain("Map")},
     c \in {Unannotated, Plain("List"), Plain("Map"), Plain("MapKeyValue")}}

ForeignTypes ==
  ForeignLeaves \cup ListGroups \cup {Columnless}
    \cup {Group("s", r, Unannotated, << Columnless, g >>) :
            r \in Repetitions, g \in {h \in ListGroups : h.repetition = "optional" /\ h.converted = Unannotated}}
-----------------------------------------------------------------------------
(* Avro schemas that other implementations write *)

AvroLeaves ==
  {p[2] : p \in AvroTypes} \cup {Plain("Enum"), Type("Enum", << "doc" >>, << >>), Plain("Map"), Type("Fixed", << "decimal" >>, << 9, 1 >>),
                                 Type("Long", << "utc", "ms" >>, << >>), Type("Bytes", << "decimal" >>, << 9, 1 >>)}

AvroUnions ==
  UNION {{Of("Union", << s, t >>), Of("Union", << t, s >>)} : s \in AvroLeaves, t \in {AvroNull, Plain("Int")}}
  \cup {Of("Union", << s, AvroNull, Plain("Int") >>) : s \in AvroLeaves}

AvroSchemas_ ==
  AvroLeaves \cup AvroUnions \cup {Of("Array", << s >>) : s \in AvroLeaves \cup AvroUnions}
    \cup {With(Type("Record", words, << >>), << WithMetadata(Field("a", s, FALSE), m) >>) :
            words \in {<< >>, << "doc" >>}, s \in AvroLeaves \cup AvroUnions, m \in {NoMetadata, [k \in {"avro::doc"} |-> "doc"]}}

SchemaCall ==
  \/ call \in [kernel : {"schema"}, format : Formats, field : SchemaFields \cup {ThreeDictionaries}]
  \/ call \in [kernel : {"parquet schema"}, type : ForeignTypes]
  \/ call \in [kernel : {"avro schema"}, schema : {Field("f", s, FALSE) : s \in AvroSchemas_}]
-----------------------------------------------------------------------------
(* Casts of every type with all its values, or some, to every other *)

Word1(id, word) == Type(id, << word >>, << >>)

PlainTypes == {Plain(id) : id \in NumericTypes \cup TextTypes \cup {"Null", "Boolean", "Float16", "Date32", "Date64"}}
DecimalTypes_ == {Type("Decimal", << >>, ps) : ps \in {<< 1, 0 >>, << 2, 1 >>, << 3, 1 >>, << 3, 0 >>}}
Stamps == {Type("Timestamp", << u, tz >>, << >>) : u \in {"s", "us", "ns"}, tz \in {Missing, "east", "Mars"}}
ClockTypes ==
  {Word1("Time32", u) : u \in {"s", "ms"}} \cup {Word1("Time64", u) : u \in {"us", "ns"}} \cup {Word1("Duration", "ms")}
    \cup {Word1("Interval", u) : u \in {"YearMonth", "DayTime", "MonthDayNano"}}

FlatTypes == PlainTypes \cup DecimalTypes_ \cup Stamps \cup ClockTypes

ListTo(id, t) == With(Plain(id), << Field("item", t, TRUE) >>)

Keyed(key, t) == Dictionary(key, t, "unsorted")

SomeInside == {Plain(id) : id \in {"Int8", "Int64", "Float32", "Utf8", "LargeUtf8", "Boolean", "Null"}}
NestedTargets ==
  {ListTo(id, t) : id \in ListIds, t \in SomeInside} \cup {Keyed(key, t) : key \in {"Int8", "UInt32"}, t \in SomeInside}
    \cup {ListTo("List", Keyed("Int8", Plain("Utf8"))), ListTo("List", Dictionary("Int8", Plain("Utf8"), "sorted")),
          Dictionary("UInt8", Plain("Int8"), "sorted"), Keyed("Int8", ListTo("List", Plain("Int8"))), With(Plain("Struct"), << >>)}
-----------------------------------------------------------------------------
From(least, greatest) == [i \in 1 .. greatest - least + 1 |-> least + i - 1]
AllOf(id) == From(LeastOf(id), SaturatedIn(Power(2, WidthOf(id)), id))

Texts ==
  << Text("integer", 3), Text("integer", -3), Text("integer", 40), Text("integer", 19), Text("float", 136), Text("float", -16), Text("float", 12800), Text("not finite", NaN),
     Text("not finite", MinusInfinity), Text("word", 0),
     Text("empty", 0), Text("date", 2), Text("naive", 9), [form |-> "instant", number |-> 20, offset |-> 8],
     [form |-> "instant", number |-> -3, offset |-> 0] >>

\* Texts that a reader of digits is not asked about: what starts like a number.
Beginnings == << Text("integer", 3), Text("prefix", 5), Text("prefix", 40), Text("float", 136), Text("empty", 0) >>

\* Floats in parts, of as many bits as they have: among them a product and a sum with a
\* tie that are rounded, what is too much for an integer, for a decimal, for a Float32.
FiniteRows(id) ==
  CASE id = "Float16" -> << -16, 0, 48, 64 >>
    [] id = "Float32" -> << -144, -16, 0, 48, 64, 104, 160, 1280, -2304 >>
    [] id = "Float64" -> << -136, -16, 0, 21, 48, 64, 160, 1088, 1984, -2176 >>

LargeRows(id) == IF id = "Float64" THEN << 7680, 7936, -12288 >> ELSE << >>

RowsFor(t) ==
  CASE t.id \in IntegerTypes -> AllOf(t.id)
    [] t.id \in FloatTypes \cup {"Float16"} -> FiniteRows(t.id) \o LargeRows(t.id) \o << NaN, Infinity, MinusInfinity >>
    [] t.id = "Decimal" -> From(1 - Power(Radix, t.numbers[1]), Power(Radix, t.numbers[1]) - 1)
    [] t.id = "Boolean" -> << TRUE, FALSE, TRUE >>
    [] t.id \in TextTypes -> Texts
    [] t.id = "Null" -> << 0, 0 >>
    [] t.id = "Interval" /\ t.words[1] = "DayTime" -> << << 1, 2 >>, << 0, -3 >>, << 2, 20 >> >>
    [] t.id = "Interval" /\ t.words[1] = "MonthDayNano" -> << << 1, 2, 3 >> >>
    [] OTHER -> AllOf(StoredIn(t))

Few(t) ==
  CASE t.id \in TextTypes -> << Text("integer", 1), Text(IF t.id \in {"Utf8", "LargeUtf8"} THEN "float" ELSE "bytes", 0), Text("integer", 1) >>
    [] t.id = "Boolean" -> << FALSE, TRUE, TRUE >>
    [] OTHER -> << 1, 0, 1 >>

FewBits == {NoValidity, << TRUE, FALSE, TRUE >>, << TRUE, TRUE, TRUE >>}

\* Every second row null.
HalfNull(a) == [a EXCEPT !.validity = [i \in DOMAIN a.rows |-> i % 2 = 1]]

FlatArrays(t) ==
  LET all == Array(t, RowsFor(t), NoValidity)
  IN  {all, HalfNull(all)}
        \cup (IF t.id = "Interval" THEN {} ELSE {Array(t, Few(t), b) : b \in FewBits})
        \cup (IF t.id \in FloatTypes THEN {Array(t, << x >>, NoValidity) : x \in {FiniteRows(t.id)[i] : i \in DOMAIN FiniteRows(t.id)}} ELSE {})
        \cup (IF t.id = "Timestamp" THEN {Array(t, << 0, 4, 8 >>, NoValidity), Array(t, << -27 >>, NoValidity)} ELSE {})
        \cup (IF t.id \in TextTypes
              THEN {Array(t, Beginnings, NoValidity), Array(t, << Text("integer", 2), Text("date", 1) >>, << TRUE, FALSE >>)} ELSE {})

ItemsFor(t) == CASE t.id \in IntegerTypes -> Array(t, << 1, 3, 0, 2 >>, << TRUE, TRUE, FALSE, TRUE >>)
                 [] t.id \in TextTypes -> Array(t, << Text("integer", 3), Text("word", 0), Text("integer", 9), Text("empty", 0) >>, NoValidity)
                 [] OTHER -> Array(t, << 48, 0, 160, -16 >>, NoValidity)

ListArrays ==
  {[type |-> ListTo(id, t), rows |-> << >>, offsets |-> os, validity |-> b, child |-> << ItemsFor(t) >>] :
     id \in ListIds, t \in {Plain("Int8"), Plain("Int64"), Plain("Utf8"), Plain("Float32")},
     os \in {<< 0, 2, 2, 3 >>, << 1, 1, 2, 3 >>}, b \in FewBits}

\* Offsets that do not fit, a slice of them included.
LongLists ==
  {[type |-> ListTo("LargeList", Plain("Int8")), rows |-> << >>, offsets |-> os, validity |-> NoValidity,
    child |-> << Array(Plain("Int8"), << 1, 2, 3, -1, -2, -3, 0, 1, 2, 3 >>, NoValidity) >>] : os \in {<< 0, 2, 5 >>, << 8, 9, 10 >>}}

DictionaryArrays ==
  {[Array(Keyed(key, t), keys, b) EXCEPT !.child = << ItemsFor(t) >>] :
     key \in {"Int8", "UInt32"}, t \in {Plain("Int8"), Plain("Int64"), Plain("Utf8"), Plain("Float32")},
     keys \in {<< 0, 1, 3 >>, << 2, 0, 2 >>}, b \in FewBits}

\* Eight values: the last keys are beyond the narrowest integers.
ManyValues ==
  {[Array(Keyed("UInt32", Plain("Int8")), keys, NoValidity) EXCEPT !.child = << Array(Plain("Int8"), << 1, 2, 3, 0, -1, -2, -3, -4 >>, NoValidity) >>] :
     keys \in {<< 0, 3 >>, << 4, 7 >>}}
-----------------------------------------------------------------------------
Defaults == [wrapped |-> FALSE, partial |-> FALSE]

CastsOf(arrays, types, options) ==
  call \in [kernel : {"cast"}, array : arrays, type : types, options : options]

\* What starts like a number, asked for partly, but no less than zero if it has no sign.
PartialTo(t) == t.id \in NumericTypes /\ t.id \notin Unsigned
PartialFrom(t) == Array(t, Beginnings, NoValidity)

CastCall ==
  \/ \E f \in FlatTypes, t \in FlatTypes \cup NestedTargets : CastsOf(FlatArrays(f), {t}, {Defaults})
  \/ \E f \in FlatTypes, t \in FlatTypes :
       /\ {f.id, t.id} \subseteq NumericTypes \cup {"Date32", "Date64"}
       /\ CastsOf(FlatArrays(f), {t}, {[Defaults EXCEPT !.wrapped = TRUE]})
  \/ \E f \in FlatTypes, t \in FlatTypes :
       /\ f.id \in TextTypes /\ PartialTo(t)
       /\ CastsOf({PartialFrom(f)}, {t}, {[Defaults EXCEPT !.partial = TRUE]})
  \/ CastsOf(ListArrays \cup LongLists \cup DictionaryArrays \cup ManyValues, FlatTypes \cup NestedTargets, {Defaults, [Defaults EXCEPT !.wrapped = TRUE]})
  \/ CastsOf({a \in ListArrays \cup DictionaryArrays : a.child[1].type.id = "Utf8"}, FlatTypes \cup NestedTargets, {[Defaults EXCEPT !.partial = TRUE]})
  \/ CastsOf({Array(With(Plain("Struct"), << >>), << 0 >>, NoValidity)}, FlatTypes \cup NestedTargets, {Defaults})
  \/ call \in [kernel : {"cast keys"}, array : DictionaryArrays \cup ManyValues, key : IntegerTypes, wraps : BOOLEAN]
-----------------------------------------------------------------------------
(* Merges: their behaviours make no other call *)

CONSTANT NoPile

VARIABLES pairs, todo, spans, merging, taken

Merge == INSTANCE MergeSort

NoCall == call = [kernel |-> "none"]

NoMerge == pairs = << >> /\ todo = << >> /\ spans = << >> /\ merging = NoPile /\ taken = << << >> >>

SequencesUpTo(n, S) == UNION {[1 .. k -> S] : k \in 0 .. n}

OneColumn(m, n, S) ==
  [arrays : [1 .. m -> SequencesUpTo(n, S)], options : SomeOptions]

\* Two columns of two arrays of the same lengths.
ColumnOf(S, options) == [arrays : [1 .. 2 -> SequencesUpTo(2, S)], options : options]

SameArrays(c, d) == \A n \in DOMAIN c.arrays : Len(c.arrays[n]) = Len(d.arrays[n])

SortedArrays == \A n \in Merge!Arrays : Merge!InOrder([c \in DOMAIN pairs |-> pairs[c].arrays[n]])

\* The arrays whole, in two parts each, or the first one not at all.
CutInTwo(n) == << << n, 0, 1 >>, << n, 1, Merge!LengthOf(n) - 1 >> >>

SpansOf(Slices(_)) ==
  LET at == {<< n - 1, n >> : n \in Merge!Arrays} IN [span \in at |-> Slices(span[2])]

MergeCall ==
  /\ \/ pairs \in {<< c >> : c \in OneColumn(2, 3, {Null, 1, 2}) \cup OneColumn(3, 2, {Null, 1}) \cup OneColumn(4, 1, {Null, 1, 2}) \cup OneColumn(1, 1, {Null, 1})}
     \/ /\ pairs \in {<< c, d >> : c \in ColumnOf({Null, 1}, SomeOptions), d \in ColumnOf({1, 2}, [descending : BOOLEAN, nullsFirst : {TRUE}])}
        /\ SameArrays(pairs[1], pairs[2])
  /\ SortedArrays
  /\ \/ spans = SpansOf(Merge!WholeOf)
     \/ /\ Len(pairs) = 1 /\ Cardinality(Merge!Arrays) = 2 /\ \A n \in Merge!Arrays : Merge!LengthOf(n) > 1
        /\ \/ spans = SpansOf(CutInTwo)
           \/ spans = SpansOf(LAMBDA n : IF n = 1 THEN << >> ELSE CutInTwo(n))
  /\ Merge!MergeInit

\* Merging is sorting, if the arrays are sorted.
MergedIsSorted == pairs # << >> => Merge!MergedIsSorted
-----------------------------------------------------------------------------
AnyCall ==
  ArithmeticCall \/ DecimalCall \/ TimeCall \/ LogicCall \/ SelectionCall \/ ComparisonCall \/ SortingCall \/ SchemaCall
    \/ CastCall

MCKernelInit ==
  /\ KernelInit
  /\ \/ AnyCall /\ NoMerge
     \/ NoCall /\ MergeCall

NotMerging == UNCHANGED << pairs, todo, spans, merging, taken >>

MCKernelNext ==
  \/ ArithmeticNext /\ NotMerging
  \/ DecimalNext /\ NotMerging
  \/ DurationNext /\ NotMerging
  \/ LogicNext /\ NotMerging
  \/ SelectionNext /\ NotMerging
  \/ ComparisonNext /\ NotMerging
  \/ SortingNext /\ NotMerging
  \/ SchemaNext /\ NotMerging
  \/ CastNext /\ NotMerging
  \/ Merge!MergeNext /\ UNCHANGED kvars

KernelSpec == MCKernelInit /\ [][MCKernelNext]_<< kvars, pairs, todo, spans, merging, taken >>
=============================================================================

-------------------------------- MODULE Casts --------------------------------
(***************************************************************************)
(* Arrays cast to another type (src/src/compute/cast).  Numbers that the   *)
(* new type does not have become null, or wrap; a text is what it says; a  *)
(* float is counted in Parts of one, and rounded; arrays are nested.       *)
(***************************************************************************)
EXTENDS DataTypes

LOCAL INSTANCE SequencesExt

CONSTANTS
  ByteWidth,     \* bits of an 8-bit integer; one more for 16, 32 and 64 bits each, two more for 128
  Radix,         \* of decimals: 10 in the code
  KeptPrecision, \* of decimals, the largest whose numbers all are within the limit: 20 in the code
  Parts,         \* of one that a float is counted in: few enough bits are never lost for being small
  SingleBits,    \* of a Float32: 24 in the code
  DoubleBits,    \* of a Float64: 53 in the code
  LeastInfinite, \* the least number too large for a Float32: 2 ^ 128 in the code
  NaN, Infinity, MinusInfinity,
  MaxSmallOffset \* the largest offset of 32 bits

ASSUME CastAssumption ==
  /\ ByteWidth \in Nat \ {0} /\ Radix \in Nat \ {0, 1} /\ MaxSmallOffset \in Nat
  /\ {KeptPrecision, Parts, SingleBits, DoubleBits, LeastInfinite} \subseteq Nat \ {0} /\ SingleBits <= DoubleBits

FloatTypes == {"Float32", "Float64"}
NumericTypes == IntegerTypes \cup FloatTypes
SmallTexts == {"Utf8", "Binary"}
TextTypes == SmallTexts \cup {"LargeUtf8", "LargeBinary"}
ListIds == {"List", "LargeList"}

Unsigned == {"UInt8", "UInt16", "UInt32", "UInt64"}

WidthOf(id) ==
  CASE id \in {"Int8", "UInt8"} -> ByteWidth
    [] id \in {"Int16", "UInt16"} -> ByteWidth + 1
    [] id \in {"Int32", "UInt32"} -> ByteWidth + 2
    [] id \in {"Int64", "UInt64"} -> ByteWidth + 3
    [] id = "Int128" -> ByteWidth + 5

LeastOf(id) == IF id \in Unsigned THEN 0 ELSE -Power(2, WidthOf(id) - 1)
RangeOf(id) == LeastOf(id) .. LeastOf(id) + Power(2, WidthOf(id)) - 1

WrappedIn(x, id) == LeastOf(id) + ((x - LeastOf(id)) % Power(2, WidthOf(id)))
SaturatedIn(x, id) ==
  IF x \in RangeOf(id) THEN x ELSE IF x < LeastOf(id) THEN LeastOf(id) ELSE LeastOf(id) + Power(2, WidthOf(id)) - 1

\* An operator of the language: checked or not by the build.
NativeIn(x, id, checks) == IF x \in RangeOf(id) THEN x ELSE IF checks THEN Panic ELSE WrappedIn(x, id)

\* The integers that a temporal type is kept in.
StoredIn(t) == ToPhysicalType(t)[2]
ItemType(t) == t.fields[1].type
-----------------------------------------------------------------------------
(* An array: its rows (keys, if a dictionary; none, if a list), the offsets of *)
(* texts and lists, what is inside.  A text is [form, number, offset].         *)

Array(type, rows, bits) ==
  [type |-> type, rows |-> rows, validity |-> bits, child |-> << >>,
   offsets |-> IF type.id \in TextTypes THEN [i \in 1 .. Len(rows) + 1 |-> i - 1] ELSE << >>]

SizeOf(a) == IF a.type.id \in ListIds THEN Len(a.offsets) - 1 ELSE Len(a.rows)

Text(form, number) == [form |-> form, number |-> number, offset |-> 0]

DefaultRow(t) ==
  CASE t.id \in TextTypes -> Text("empty", 0)
    [] t.id = "Boolean" -> FALSE
    [] OTHER -> 0

\* ListArray::new
NewList(type, offsets, items, bits) ==
  IF items.type # ItemType(type) \/ offsets[1] < 0 \/ ~Monotone(offsets) \/ Last(offsets) > SizeOf(items) THEN Panic
  ELSE [type |-> type, rows |-> << >>, validity |-> bits, child |-> << items >>, offsets |-> offsets]

\* from_trusted_len_iter: a row that is Null is the default of its type.
FromOptions(type, options) ==
  Array(type, [i \in DOMAIN options |-> IF options[i] = Null THEN DefaultRow(type) ELSE options[i]],
        OptionalBits([i \in DOMAIN options |-> options[i] # Null]))

OptionsOf(a) == [i \in DOMAIN a.rows |-> IF Valid(a.validity, i) THEN a.rows[i] ELSE Null]

\* Rows that are valid, each one's result an option.
Sifted(a, type, Op(_)) ==
  LET options == [i \in DOMAIN a.rows |-> IF OptionsOf(a)[i] = Null THEN Null ELSE Op(a.rows[i])]
  IN  IF \E i \in DOMAIN options : options[i] = Panic THEN Panic ELSE FromOptions(type, options)

\* compute/arity.rs: all the rows, those behind nulls too.
EveryRow(a, type, Op(_)) ==
  LET rows == [i \in DOMAIN a.rows |-> Op(a.rows[i])]
  IN  IF \E i \in DOMAIN rows : rows[i] = Panic THEN Panic ELSE Array(type, rows, a.validity)

\* The same values under another type.
Retyped(a, type) == [a EXCEPT !.type = type]
-----------------------------------------------------------------------------
(* Numbers *)

NotFinite == {NaN, Infinity, MinusInfinity}

BitsOfFloat(t) == IF t = "Float64" THEN DoubleBits ELSE SingleBits

\* The float of type t that is nearest to so many parts; an infinite one if they are too many.
ToFloat(q, t) ==
  LET float == Rounded(q, BitsOfFloat(t))
      parts == Quotient(float.num, float.den)
  IN  IF t = "Float64" \/ Abs(parts) < LeastInfinite * Parts THEN parts
      ELSE IF parts > 0 THEN Infinity ELSE MinusInfinity

AsFloat(x, f, t) ==
  CASE x \in NotFinite -> x
    [] f \in FloatTypes -> ToFloat(Ratio(x, 1), t)
    [] OTHER -> ToFloat(Ratio(x * Parts, 1), t)

\* num_traits::AsPrimitive, `as`
AsNumber(x, f, t) ==
  CASE t \in FloatTypes -> AsFloat(x, f, t)
    [] x = NaN -> 0
    [] x = Infinity -> LeastOf(t) + Power(2, WidthOf(t)) - 1
    [] x = MinusInfinity -> LeastOf(t)
    [] f \in FloatTypes -> SaturatedIn(Quotient(x, Parts), t)
    [] OTHER -> WrappedIn(x, t)

\* num_traits::cast: every number is some float.
CastNumber(x, f, t) ==
  CASE t \in FloatTypes -> AsFloat(x, f, t)
    [] x \in NotFinite -> Null
    [] OTHER -> LET n == IF f \in FloatTypes THEN Quotient(x, Parts) ELSE x
                IN  IF n \in RangeOf(t) THEN n ELSE Null

PrimitiveAsPrimitive(a, f, t, type) == EveryRow(a, type, LAMBDA x : AsNumber(x, f, t))
PrimitiveToPrimitive(a, f, t, type) == Sifted(a, type, LAMBDA x : CastNumber(x, f, t))

\* The casts that take the faster way, whatever is asked for.
Widens(f, t) ==
  \/ f \in IntegerTypes /\ t \in FloatTypes /\ << f, t >> # << "Int64", "Float32" >>
  \/ f = "Float32" /\ t = "Float64"
  \/ {f, t} \subseteq IntegerTypes /\ (f \in Unsigned) = (t \in Unsigned) /\ WidthOf(f) < WidthOf(t)

PrimitiveToPrimitiveDyn(a, f, t, type, options) ==
  IF options.wrapped \/ Widens(f, t) THEN PrimitiveAsPrimitive(a, f, t, type) ELSE PrimitiveToPrimitive(a, f, t, type)

\* The limit that the code has for a precision: 9 ^ (1 + precision).
MaxForPrecision(p) == SaturatedIn(Power(Radix - 1, 1 + p), "Int128")

DecimalOrNull(x, t) == IF Abs(x) > MaxForPrecision(t.numbers[1]) THEN Null ELSE x
CheckedDecimal(x, t) == IF x \in RangeOf("Int128") THEN DecimalOrNull(x, t) ELSE Null

IntegerToDecimal(a, t) == Sifted(a, t, LAMBDA x : CheckedDecimal(x * Power(Radix, t.numbers[2]), t))

\* The product is a float; the power of ten is taken to be one.
FloatToDecimal(a, t) ==
  LET Product(x) == ToFloat(Ratio(x * Power(Radix, t.numbers[2]), 1), a.type.id)
      Scaled(x) == IF x \in NotFinite \/ Product(x) \in NotFinite THEN Panic
                   ELSE LET n == Quotient(Product(x), Parts)
                        IN  IF n \in RangeOf("Int128") THEN DecimalOrNull(n, t) ELSE Panic
  IN  Sifted(a, t, Scaled)

DecimalToInteger(a, t) ==
  Sifted(a, t, LAMBDA x : LET n == Quotient(x, Power(Radix, a.type.numbers[2])) IN IF n \in RangeOf(t.id) THEN n ELSE Null)

\* Divided as a Float64, whatever the float.
DecimalToFloat(a, t) ==
  LET Double(x) == ToFloat(Ratio(x * Parts, 1), "Float64")
      Divided64(x) == ToFloat(Ratio(Double(x), Power(Radix, a.type.numbers[2])), "Float64")
  IN  EveryRow(a, t, LAMBDA x : ToFloat(Ratio(Divided64(x), 1), t.id))

DecimalToDecimal(a, t) ==
  LET f == a.type.numbers
      g == t.numbers
  IN  IF f[2] = g[2] /\ g[1] >= f[1] THEN Retyped(a, t)
      ELSE IF f[2] > g[2] THEN Sifted(a, t, LAMBDA x : CheckedDecimal(Quotient(x, Power(Radix, f[2] - g[2])), t))
      ELSE Sifted(a, t, LAMBDA x : CheckedDecimal(x * Power(Radix, g[2] - f[2]), t))

PrimitiveToBoolean(a, t) == EveryRow(a, t, LAMBDA x : x # 0)
BooleanToPrimitive(a, t) ==
  EveryRow(a, t, LAMBDA x : IF x THEN (IF t.id \in FloatTypes THEN Parts ELSE 1) ELSE 0)
-----------------------------------------------------------------------------
(* Texts *)

\* lexical_core::write
Written(x, f) ==
  CASE f = "Boolean" -> Text("integer", IF x THEN 1 ELSE 0)
    [] f \in IntegerTypes -> Text("integer", x)
    [] x \in NotFinite -> Text("not finite", x)
    [] OTHER -> Text("float", x)

\* lexical_core::parse: the whole text.
Parse(x, t) ==
  CASE t \in FloatTypes /\ x.form = "integer" -> ToFloat(Ratio(x.number * Parts, 1), t)
    [] t \in FloatTypes /\ x.form = "float" -> ToFloat(Ratio(x.number, 1), t)
    [] t \in FloatTypes /\ x.form = "not finite" -> x.number
    [] t \in IntegerTypes /\ x.form = "integer" /\ x.number \in RangeOf(t) -> x.number
    [] OTHER -> Null

\* lexical_core::parse_partial: the digits that it starts with; no digits are zero.
ParsePartial(x, t) ==
  LET n == IF x.form = "float" THEN Quotient(x.number, Parts) ELSE x.number
  IN  CASE t \in FloatTypes /\ x.form = "prefix" -> ToFloat(Ratio(x.number * Parts, 1), t)
        [] t \in FloatTypes -> Parse(x, t)
        [] x.form \in {"integer", "prefix", "float"} -> IF n \in RangeOf(t) THEN n ELSE Null
        [] x.form \in {"word", "not finite"} -> 0
        [] OTHER -> Null

TextToPrimitive(a, t, options) ==
  Sifted(a, t, LAMBDA x : IF options.partial THEN ParsePartial(x, t.id) ELSE Parse(x, t.id))

PrimitiveToText(a, t) == EveryRow(a, t, LAMBDA x : Written(x, a.type.id))

\* The values alone: nulls are lost.
BooleanToText(a, t) == Array(t, [i \in DOMAIN a.rows |-> Written(a.rows[i], "Boolean")], NoValidity)

IsUtf8(x) == x.form # "bytes"

\* Utf8Array::try_new looks at all of the values.
BinaryToUtf8(a, t) == IF \A i \in DOMAIN a.rows : IsUtf8(a.rows[i]) THEN Retyped(a, t) ELSE Refused
BinaryToOptions(a, t) == Sifted(a, t, LAMBDA x : IF IsUtf8(x) THEN x ELSE Null)

\* utf8_large_to_utf8, binary_large_to_binary
NarrowedText(a, t) == IF Last(a.offsets) > MaxSmallOffset THEN Refused ELSE Retyped(a, t)

TextToText(a, t) ==
  LET f == a.type.id
  IN  CASE f \in {"LargeUtf8", "LargeBinary"} /\ t.id \in SmallTexts -> NarrowedText(a, t)
        [] f = "Binary" /\ t.id = "Utf8" -> BinaryToOptions(a, t)
        [] f \in {"Binary", "LargeBinary"} /\ t.id = "LargeUtf8" -> BinaryToUtf8(a, t)
        [] OTHER -> Retyped(a, t)
-----------------------------------------------------------------------------
(* Dates and times *)

TimeUnitMultiple == [s |-> 1, ms |-> Milli, us |-> Milli * Milli, ns |-> Milli * Milli * Milli]
UnitOf(t) == TimeUnitMultiple[t.words[1]]
MillisecondsInDay == Milli * Day

\* From the unit of f to a finer or a coarser one, each x native in t.
TimestampToTimestamp(x, f, t, checks) ==
  IF UnitOf(f) >= UnitOf(t) THEN Quotient(x, UnitOf(f) \div UnitOf(t))
  ELSE NativeIn(x * (UnitOf(t) \div UnitOf(f)), "Int64", checks)

TimestampToDate64(x, f, checks) ==
  IF Milli < UnitOf(f) THEN Quotient(x, UnitOf(f) \div Milli) ELSE NativeIn(x * (Milli \div UnitOf(f)), "Int64", checks)

TimestampToDate32(x, f) == WrappedIn(Quotient(x, UnitOf(f) * Day), "Int32")

Time32ToTime64(x, f, t, checks) == NativeIn(x * (UnitOf(t) \div UnitOf(f)), "Int64", checks)

Time64ToTime32(x, f, t) ==
  LET divisor == UnitOf(f) \div UnitOf(t)
  IN  IF divisor = 0 THEN Panic ELSE WrappedIn(Quotient(x, divisor), "Int32")

\* Between the two units of a time of the same width.
TimeToTime(x, f, t, checks) ==
  IF UnitOf(f) < UnitOf(t) THEN NativeIn(x * Milli, StoredIn(t), checks) ELSE Quotient(x, Milli)

\* An interval is << months, days, ns >>; of days and milliseconds, << days, ms >>.
ToMonthDayNano(x, f, checks) ==
  IF f.words[1] = "YearMonth" THEN << x, 0, 0 >>
  ELSE LET ns == NativeIn(x[2] * Milli, "Int64", checks) IN IF ns = Panic THEN Panic ELSE << 0, x[1], ns >>

Zones == [utc |-> 0, east |-> 1]

ParseOffset(tz) == IF tz \in DOMAIN Zones THEN Zones[tz] * TimeUnitMultiple.ns ELSE Refused

\* timestamp_*_to_datetime: the part of a second is negative before 1970.
HasDatetime(x, f) == x >= 0 \/ x % UnitOf(f) = 0

TimestampToText(a, t) ==
  LET f == a.type
      tz == f.words[2]
      offset == IF tz = Missing THEN 0 ELSE ParseOffset(tz)
      TextOf(x) == IF ~HasDatetime(x, f) THEN Panic
                   ELSE [form |-> IF tz = Missing THEN "naive" ELSE "instant", offset |-> offset,
                         number |-> x * (TimeUnitMultiple.ns \div UnitOf(f)) + offset]
  IN  IF offset = Refused THEN Refused ELSE Sifted(a, t, TextOf)

\* Naively, the offset that a text names is ignored.
TextToTimestamp(a, t) ==
  LET tz == t.words[2]
  IN  IF tz # Missing /\ ParseOffset(tz) = Refused THEN Refused
      ELSE Sifted(a, t, LAMBDA x : IF x.form # "instant" THEN Null
                                   ELSE IF tz = Missing THEN x.number ELSE x.number - x.offset)

TextToDate(a, t, checks) ==
  Sifted(a, t, LAMBDA x : IF x.form # "date" THEN Null
                          ELSE IF t.id = "Date32" THEN x.number ELSE NativeIn(x.number * MillisecondsInDay, "Int64", checks))

\* What cast has for dates and times: an option, for every row.
TimeCasts(f, t) ==
  \/ f.id = "Timestamp" /\ t.id = "Timestamp"
  \/ f.id = t.id /\ << f.id, {f.words[1], t.words[1]} >> \in {<< "Time32", {"s", "ms"} >>, << "Time64", {"us", "ns"} >>}
  \/ << f.id, t.id >> \in {<< "Date32", "Date64" >>, << "Date64", "Date32" >>, << "Time32", "Time64" >>,
       << "Time64", "Time32" >>, << "Timestamp", "Date32" >>, << "Timestamp", "Date64" >>}
  \/ f.id = "Interval" /\ t.id = "Interval" /\ t.words[1] = "MonthDayNano"

TimeCast(x, f, t, checks) ==
  CASE f.id = "Date32" -> NativeIn(x * MillisecondsInDay, "Int64", checks)
    [] f.id = "Date64" -> WrappedIn(Quotient(x, MillisecondsInDay), "Int32")
    [] f.id = "Timestamp" /\ t.id = "Timestamp" -> TimestampToTimestamp(x, f, t, checks)
    [] t.id = "Date64" -> TimestampToDate64(x, f, checks)
    [] t.id = "Date32" -> TimestampToDate32(x, f)
    [] f.id = "Time32" /\ t.id = "Time64" -> Time32ToTime64(x, f, t, checks)
    [] f.id = "Time64" /\ t.id = "Time32" -> Time64ToTime32(x, f, t)
    [] f.id = "Interval" -> ToMonthDayNano(x, f, checks)
    [] OTHER -> TimeToTime(x, f, t, checks)

\* The types that share their integers: only the type is changed.
SharesIntegers(f, t) ==
  \/ f.id \in {"Date32", "Time32"} /\ t.id = "Int32"
  \/ f.id \in {"Date64", "Time64", "Timestamp", "Duration"} /\ t.id = "Int64"
  \/ f.id = "Int32" /\ (t.id = "Date32" \/ (t.id = "Time32" /\ t.words[1] \in {"s", "ms"}))
  \/ f.id = "Int64" /\ (t.id \in {"Date64", "Timestamp", "Duration"} \/ (t.id = "Time64" /\ t.words[1] \in {"us", "ns"}))
-----------------------------------------------------------------------------
(* Dictionaries *)

\* MutableDictionaryArray: the values in the order they are met; never an ordered dictionary.
Packed(a, key) ==
  LET values == FoldLeft(LAMBDA seen, x : IF x = Null \/ Contains(seen, x) THEN seen ELSE Append(seen, x), << >>, OptionsOf(a))
      KeyOf(x) == IF x = Null THEN Null ELSE (CHOOSE n \in DOMAIN values : values[n] = x) - 1
      keys == FromOptions(Plain(key), [i \in DOMAIN a.rows |-> KeyOf(OptionsOf(a)[i])])
  IN  IF Len(values) - 1 \notin RangeOf(key) /\ values # << >> THEN Refused
      ELSE [Retyped(keys, Dictionary(key, a.type, "unsorted")) EXCEPT !.child = << Array(a.type, values, NoValidity) >>]

\* A bug: keys that do not fit are nulls.
KeyCastToNulls(a, values, t) ==
  LET keys == PrimitiveToPrimitive(Retyped(a, Plain(a.type.words[1])), a.type.words[1], t.words[1], Plain(t.words[1]))
  IN  IF values.type # t.inner[1] THEN Refused ELSE [Retyped(keys, t) EXCEPT !.child = << values >>]

Nulls(a) == {i \in DOMAIN a.rows : ~Valid(a.validity, i)}

\* key_cast!: a key that the new type does not have is an error.
KeyCast(a, values, t) ==
  LET keys == PrimitiveToPrimitive(Retyped(a, Plain(a.type.words[1])), a.type.words[1], t.words[1], Plain(t.words[1]))
  IN  IF Nulls(keys) # Nulls(a) \/ values.type # t.inner[1] THEN Refused
      ELSE [Retyped(keys, t) EXCEPT !.child = << values >>]

\* take of the values at the keys, made 32 bits wide first.
Unpacked(a, values) ==
  LET keys == PrimitiveToPrimitive(a, a.type.words[1], "Int32", Plain("Int32"))
  IN  FromOptions(values.type, [i \in DOMAIN keys.rows |-> IF Valid(keys.validity, i) THEN OptionsOf(values)[keys.rows[i] + 1] ELSE Null])

\* dictionary_to_dictionary_keys: a key that misfits is an error, or is wrapped and looked at again.
DictionaryKeys(a, key, wraps) ==
  LET f == a.type.words[1]
      keys == IF wraps THEN PrimitiveAsPrimitive(a, f, key, Plain(key)) ELSE PrimitiveToPrimitive(a, f, key, Plain(key))
      misplaced == {i \in DOMAIN keys.rows \ Nulls(keys) : keys.rows[i] \notin 0 .. SizeOf(a.child[1]) - 1}
  IN  IF Nulls(keys) # Nulls(a) \/ (wraps /\ misplaced # {}) THEN Refused
      ELSE [Retyped(keys, Dictionary(key, a.child[1].type, a.type.words[2])) EXCEPT !.child = a.child]

PackedTypes == IntegerTypes \cup TextTypes
-----------------------------------------------------------------------------
(* can_cast_types *)

TemporalPairs ==
  {<< "Date32", "Int64" >>, << "Date64", "Int32" >>, << "Date32", "Date64" >>, << "Date64", "Date32" >>, << "Time32", "Time64" >>,
   << "Timestamp", "Timestamp" >>, << "Timestamp", "Date32" >>, << "Timestamp", "Date64" >>,
   << "Int32", "Date32" >>, << "Int32", "Time32" >>, << "Date32", "Int32" >>, << "Time32", "Int32" >>, << "Int64", "Date64" >>,
   << "Int64", "Time64" >>, << "Date64", "Int64" >>, << "Time64", "Int64" >>, << "Timestamp", "Int64" >>, << "Int64", "Timestamp" >>,
   << "Int64", "Duration" >>, << "Duration", "Int64" >>}

CanCastTemporal(f, t) ==
  \/ << f.id, t.id >> \in TemporalPairs
  \/ f.id = "Time32" /\ t.id = "Time32" /\ {f.words[1], t.words[1]} = {"s", "ms"}
  \/ f.id = "Time64" /\ t.id = "Time64" /\ {f.words[1], t.words[1]} = {"us", "ns"}
  \/ f.id = "Time64" /\ t.id = "Time32" /\ t.words[1] \in {"s", "ms"}
  \/ f.id = "Interval" /\ t.id = "Interval" /\ t.words[1] = "MonthDayNano"

Instants(t) == t.id \in {"Date32", "Date64"} \/ (t.id = "Timestamp" /\ t.words[1] = "ns")

CanCastFlat(f, t) ==
  CASE t.id = "Boolean" -> f.id \in NumericTypes
    [] f.id = "Boolean" -> t.id \in NumericTypes \cup TextTypes
    [] f.id = "Utf8" -> t.id \in NumericTypes \cup {"LargeUtf8", "Binary"} \/ Instants(t)
    [] f.id = "LargeUtf8" -> t.id \in NumericTypes \cup {"Utf8", "LargeBinary"} \/ Instants(t)
    [] f.id = "Binary" -> t.id \in NumericTypes \cup {"LargeBinary", "Utf8", "LargeUtf8"}
    [] f.id = "LargeBinary" -> t.id \in NumericTypes \cup {"Binary", "LargeUtf8"}
    [] t.id \in {"Utf8", "LargeUtf8"} -> f.id \in NumericTypes \cup {"Timestamp"}
    [] t.id \in {"Binary", "LargeBinary"} -> f.id \in NumericTypes
    [] OTHER ->
         \/ {f.id, t.id} \subseteq NumericTypes \cup {"Decimal"}
         \/ f.id = "Float16" /\ t.id = "Float32"
         \/ CanCastTemporal(f, t)

RECURSIVE CanCastTypes(_, _)
CanCastTypes(f, t) ==
  CASE f = t \/ "Null" \in {f.id, t.id} -> TRUE
    [] "Struct" \in {f.id, t.id} -> FALSE
    [] f.id = t.id /\ f.id \in ListIds -> CanCastTypes(ItemType(f), ItemType(t))
    [] {f.id, t.id} = ListIds /\ f.fields = t.fields -> TRUE
    [] t.id = "List" -> CanCastTypes(f, ItemType(t))
    [] f.id = "Dictionary" /\ t.id = "Dictionary" -> CanCastTypes(f.inner[1], t.inner[1])
    [] f.id = "Dictionary" -> CanCastTypes(f.inner[1], t)
    [] t.id = "Dictionary" -> CanCastTypes(f, t.inner[1])
    [] OTHER -> CanCastFlat(f, t)
-----------------------------------------------------------------------------
(* cast *)

\* new_null_array
RECURSIVE NullArray(_, _)
NullArray(t, n) ==
  LET nulls == Array(t, Repeat(DefaultRow(t), n), Repeat(FALSE, n))
  IN  CASE t.id \in ListIds ->
             [nulls EXCEPT !.rows = << >>, !.offsets = Repeat(0, n + 1), !.child = << Array(ItemType(t), << >>, NoValidity) >>]
        [] t.id = "Dictionary" -> [nulls EXCEPT !.child = << NullArray(t.inner[1], 1) >>]
        [] t.id = "Null" -> Array(t, Repeat(0, n), NoValidity)
        [] OTHER -> nulls

CastNumbers(a, t, options) ==
  LET f == a.type
  IN  CASE f.id = "Decimal" /\ t.id = "Decimal" -> DecimalToDecimal(a, t)
        [] f.id = "Decimal" /\ t.id \in FloatTypes -> DecimalToFloat(a, t)
        [] f.id = "Decimal" -> DecimalToInteger(a, t)
        [] t.id = "Decimal" /\ f.id \in FloatTypes -> FloatToDecimal(a, t)
        [] t.id = "Decimal" -> IntegerToDecimal(a, t)
        [] OTHER -> PrimitiveToPrimitiveDyn(a, f.id, t.id, t, options)

CastTexts(a, t, options, checks) ==
  LET f == a.type
  IN  CASE t.id \in NumericTypes -> TextToPrimitive(a, t, options)
        [] t.id \in {"Date32", "Date64"} /\ f.id \in {"Utf8", "LargeUtf8"} -> TextToDate(a, t, checks)
        [] t.id = "Timestamp" /\ t.words[1] = "ns" /\ f.id \in {"Utf8", "LargeUtf8"} -> TextToTimestamp(a, t)
        [] << f.id, t.id >> \in {<< "Utf8", "LargeUtf8" >>, << "Utf8", "Binary" >>, << "LargeUtf8", "Utf8" >>,
             << "LargeUtf8", "LargeBinary" >>, << "Binary", "LargeBinary" >>, << "Binary", "Utf8" >>, << "Binary", "LargeUtf8" >>,
             << "LargeBinary", "Binary" >>, << "LargeBinary", "LargeUtf8" >>} -> TextToText(a, t)
        [] OTHER -> Unsupported

CastToText(a, t) ==
  CASE a.type.id \in NumericTypes -> PrimitiveToText(a, t)
    [] a.type.id = "Timestamp" /\ t.id \in {"Utf8", "LargeUtf8"} -> TimestampToText(a, t)
    [] OTHER -> Unsupported

CastTemporal(a, t, options, checks) ==
  LET f == a.type
  IN  CASE SharesIntegers(f, t) -> Retyped(a, t)
        [] << f.id, t.id >> \in {<< "Date32", "Int64" >>, << "Date64", "Int32" >>} ->
             PrimitiveToPrimitiveDyn(a, StoredIn(f), t.id, t, options)
        [] TimeCasts(f, t) -> EveryRow(a, t, LAMBDA x : TimeCast(x, f, t, checks))
        [] OTHER -> Unsupported

CastFlat(a, t, options, checks) ==
  LET f == a.type
  IN  CASE t.id = "Boolean" -> IF f.id \in NumericTypes THEN PrimitiveToBoolean(a, t) ELSE Unsupported
        [] f.id = "Boolean" /\ t.id \in NumericTypes -> BooleanToPrimitive(a, t)
        [] f.id = "Boolean" /\ t.id \in TextTypes -> BooleanToText(a, t)
        [] f.id \in TextTypes -> CastTexts(a, t, options, checks)
        [] t.id \in TextTypes -> CastToText(a, t)
        [] {f.id, t.id} \subseteq NumericTypes \cup {"Decimal"} -> CastNumbers(a, t, options)
        [] f.id = "Float16" /\ t.id = "Float32" -> Retyped(a, t)
        [] OTHER -> CastTemporal(a, t, options, checks)

\* cast_large_to_list: `as i32`, unchecked.
SmallOffset(x) == ((x + MaxSmallOffset + 1) % (2 * (MaxSmallOffset + 1))) - (MaxSmallOffset + 1)

RECURSIVE Cast(_, _, _, _)
Cast(a, t, options, checks) ==
  LET f == a.type
      Of(items, Made(_)) == IF items \in Failures THEN items ELSE Made(items)
      Inside(to) == Cast(a.child[1], to, options, checks)
  IN  CASE f = t -> a
        [] "Null" \in {f.id, t.id} -> NullArray(t, SizeOf(a))
        [] "Struct" \in {f.id, t.id} -> Unsupported
        [] f.id = t.id /\ f.id \in ListIds ->
             Of(Inside(ItemType(t)), LAMBDA items : NewList(t, a.offsets, items, a.validity))
        [] f.id = "List" /\ t.id = "LargeList" /\ f.fields = t.fields -> NewList(t, a.offsets, a.child[1], a.validity)
        [] f.id = "LargeList" /\ t.id = "List" /\ f.fields = t.fields ->
             NewList(t, [i \in DOMAIN a.offsets |-> SmallOffset(a.offsets[i])], a.child[1], a.validity)
        [] t.id = "List" ->
             Of(Cast(a, ItemType(t), options, checks),
                LAMBDA items : NewList(t, [i \in 1 .. SizeOf(a) + 1 |-> i - 1], items, NoValidity))
        [] f.id = "Dictionary" /\ t.id = "Dictionary" -> Of(Inside(t.inner[1]), LAMBDA values : KeyCast(a, values, t))
        [] f.id = "Dictionary" -> Of(Inside(t), LAMBDA values : Unpacked(a, values))
        [] t.id = "Dictionary" ->
             Of(Cast(a, t.inner[1], options, checks),
                LAMBDA values : IF t.inner[1].id \in PackedTypes THEN Packed(values, t.words[1]) ELSE Unsupported)
        [] OTHER -> CastFlat(a, t, options, checks)

CastArray == \E checks \in BOOLEAN : Returns("cast", Cast(call.array, call.type, call.options, checks))
CastKeys == Returns("cast keys", DictionaryKeys(call.array, call.key, call.wraps))

CastNext == CastArray \/ CastKeys
-----------------------------------------------------------------------------
(* What a cast is to be: what the rows mean before and after. *)

\* The rows as their reader sees them.
RECURSIVE Meanings(_)
Meanings(a) ==
  LET RowOf(i) ==
        CASE a.type.id \in ListIds -> SubSeq(Meanings(a.child[1]), a.offsets[i] + 1, a.offsets[i + 1])
          [] a.type.id = "Dictionary" -> Meanings(a.child[1])[a.rows[i] + 1]
          [] OTHER -> a.rows[i]
  IN  [i \in 1 .. SizeOf(a) |-> IF a.type.id = "Null" \/ ~Valid(a.validity, i) THEN Null ELSE RowOf(i)]

\* How many of a type make one, or one day.
PerUnit(t) ==
  CASE t.id \in IntegerTypes -> 1
    [] t.id \in FloatTypes \cup {"Float16"} -> Parts
    [] t.id = "Decimal" -> Power(Radix, t.numbers[2])
    [] t.id = "Date32" -> 1
    [] t.id = "Date64" -> MillisecondsInDay
    [] OTHER -> UnitOf(t) * Day

IsNumber(t) == t.id \in NumericTypes \cup {"Decimal"}
IsTime(t) == t.id \in {"Date32", "Date64", "Time32", "Time64", "Timestamp"}

\* The same number, or the same time, of another type: cut where it is finer.
Exactly(x, f, t) == IF IsNumber(f) = IsNumber(t) THEN Quotient(x * PerUnit(t), PerUnit(f)) ELSE x

\* r is num / den parts, if the float has the bits, or no further from it than half its
\* last bit, after so many roundings of a Float64; it is infinite if it is too large.
NearFloat(r, num, den, t, roundings) ==
  LET Rounding(n) == (2 ^ DoubleBits + n) ^ roundings * (2 ^ BitsOfFloat(t) + n)
      TooLarge(x, n) == t = "Float32" /\ Abs(x) * Rounding(n) >= LeastInfinite * Parts * Rounding(0)
  IN  CASE r \in {Infinity, MinusInfinity} -> TooLarge(num \div den, 1) /\ (r = Infinity) = (num > 0)
        [] num % den = 0 /\ IsFloat(num \div den, BitsOfFloat(t)) -> r = num \div den
        [] OTHER ->
             /\ IsFloat(r, BitsOfFloat(t)) /\ ~TooLarge(r, 0)
             /\ Abs(num) * Rounding(-1) <= Abs(r) * den * Rounding(0) /\ Abs(r) * den * Rounding(0) <= Abs(num) * Rounding(1)
             /\ (r < 0) = (num < 0)

\* A decimal is kept or null.  Those of as many digits as the type says are kept, up to
\* a precision, and those of two digits more never are: the limit of the code is neither
\* that of the type nor that of one digit more.
DecimalKept(x, r, p) ==
  /\ r \in {x, Null}
  /\ p <= KeptPrecision /\ Abs(x) < Power(Radix, p) => r = x
  /\ Abs(x) >= Power(Radix, 1 + p) => r = Null

\* What the product of a float and a power of ten may be cut to.
Products(x, f, t) ==
  LET product == x * Power(Radix, t.numbers[2])
      Rounding(n) == Quotient(product * (2 ^ BitsOfFloat(f.id) + n), Parts * 2 ^ BitsOfFloat(f.id))
  IN  IF IsFloat(product, BitsOfFloat(f.id)) THEN {Rounding(0)} ELSE Rounding(-1) .. Rounding(1) \cup Rounding(1) .. Rounding(-1)

\* A number that the type does not have.
Misfit(x, f, t, options) ==
  CASE f.id = "Decimal" -> Null
    [] IsTime(t) -> WrappedIn(x, StoredIn(t))
    [] ~options.wrapped -> Null
    [] f.id \in FloatTypes -> SaturatedIn(x, t.id)
    [] OTHER -> WrappedIn(x, t.id)

\* What is not finite stays so in a float, and is no integer.
NotFiniteKept(x, r, t, options) ==
  CASE t.id \in FloatTypes -> r = x
    [] ~options.wrapped -> r = Null
    [] x = NaN -> r = 0
    [] OTHER -> r = SaturatedIn(IF x = Infinity THEN Power(2, WidthOf(t.id)) ELSE -Power(2, WidthOf(t.id)), t.id)

NumberKept(x, r, f, t, options) ==
  CASE x \in NotFinite -> NotFiniteKept(x, r, t, options)
    [] t.id \in FloatTypes -> NearFloat(r, x * Parts, PerUnit(f), t.id, IF f.id = "Decimal" THEN 2 ELSE 0)
    [] t.id = "Decimal" /\ f.id \in FloatTypes -> \E y \in Products(x, f, t) : DecimalKept(y, r, t.numbers[1])
    [] t.id = "Decimal" -> DecimalKept(Exactly(x, f, t), r, t.numbers[1])
    [] Exactly(x, f, t) \in RangeOf(StoredIn(t)) -> r = Exactly(x, f, t)
    [] OTHER -> r = Misfit(Exactly(x, f, t), f, t, options)

\* The number of a text, if it says one that t has.
Says(x, t) ==
  \/ x.form = "integer" /\ (t.id \in FloatTypes \/ x.number \in RangeOf(t.id))
  \/ x.form \in {"float", "not finite"} /\ t.id \in FloatTypes

\* The number of a text, or that it begins with, in parts.
PartsOf(x) == IF x.form \in {"float", "not finite"} THEN x.number ELSE x.number * Parts

FloatKept(x, r, t) == IF PartsOf(x) \in NotFinite THEN r = PartsOf(x) ELSE NearFloat(r, PartsOf(x), 1, t.id, 0)

TextKept(x, r, f, t, options) ==
  CASE t.id \in TextTypes -> r = (IF x.form = "bytes" /\ t.id \in {"Utf8", "LargeUtf8"} THEN Null ELSE x)
    [] t.id \in FloatTypes /\ Says(x, t) -> FloatKept(x, r, t)
    [] t.id \in NumericTypes /\ Says(x, t) -> r = x.number
    [] t.id \in NumericTypes ->
         r = Null \/ (options.partial /\ (IF t.id \in FloatTypes THEN FloatKept(x, r, t) ELSE r = Quotient(PartsOf(x), Parts)))
    [] t.id = "Timestamp" /\ x.form = "instant" -> r = x.number - (IF t.words[2] = Missing THEN 0 ELSE x.offset)
    [] IsTime(t) /\ x.form = "date" -> t.id # "Timestamp" => r = x.number * PerUnit(t)
    [] OTHER -> r = Null

\* The text of a number or of an instant can be read back.
TextGiven(x, r, f) ==
  CASE f.id = "Boolean" -> r.form = "integer" /\ (r.number = 1) = x
    [] f.id = "Timestamp" -> r.number - r.offset = x * (TimeUnitMultiple.ns \div UnitOf(f))
    [] OTHER -> Parse(r, f.id) = x

\* A row x of type f that is not null, and the row r of type t that it is cast to.
RowIsCast(x, r, f, t, options) ==
  CASE f.id \in TextTypes -> TextKept(x, r, f, t, options)
    [] t.id \in TextTypes -> TextGiven(x, r, f)
    [] t.id = "Boolean" -> r = (x # 0)
    [] f.id = "Boolean" -> r = (IF x THEN 1 ELSE 0) * PerUnit(t)
    [] f.id = "Interval" -> IF f.words[1] = "YearMonth" THEN r = << x, 0, 0 >> ELSE r[1] = 0 /\ r[2] = x[1]
    [] IsNumber(f) \/ IsTime(f) \/ IsNumber(t) \/ IsTime(t) -> NumberKept(x, r, f, t, options)
    [] OTHER -> r = x

RECURSIVE ItemIsCast(_, _, _, _, _)
ItemIsCast(x, r, f, t, options) ==
  CASE f = t -> r = x
    [] "Null" \in {f.id, t.id} -> r = Null
    [] {f.id, t.id} \subseteq ListIds /\ (f.id = t.id \/ f.fields = t.fields) ->
         IF Null \in {x, r} THEN x = r
         ELSE Len(r) = Len(x) /\ \A i \in DOMAIN x : ItemIsCast(x[i], r[i], ItemType(f), ItemType(t), options)
    [] f.id = "Dictionary" /\ t.id = "Dictionary" ->
         (x = Null /\ r = Null) \/ ItemIsCast(x, r, f.inner[1], t.inner[1], options)
    [] t.id = "List" -> Len(r) = 1 /\ ItemIsCast(x, r[1], f, ItemType(t), options)
    [] f.id = "Dictionary" -> ItemIsCast(x, r, f.inner[1], t, options)
    [] t.id = "Dictionary" -> ItemIsCast(x, r, f, t.inner[1], options)
    [] x = Null -> r = Null \/ (f.id = "Boolean" /\ t.id \in TextTypes)
    [] OTHER -> RowIsCast(x, r, f, t, options)
-----------------------------------------------------------------------------
IncludesEither(f, t, ids) == Includes(f, ids) \/ Includes(t, ids)

TimeTypes_ == {"Date32", "Date64", "Time32", "Time64", "Timestamp", "Interval"}

\* Dictionaries are never ordered when they are made, nor made of other types than these.
Packs(t) == \A s \in TypesOf(t) : s.id = "Dictionary" => s.inner[1].id \in PackedTypes /\ s.words[2] = "unsorted"

\* Offsets that fit into 32 bits; a cast to the smaller list does not look at them.
SmallOffsets(a, t) == a.type.id = "LargeList" /\ t.id = "List" => Last(a.offsets) <= MaxSmallOffset

\* Only these casts can fail.
CastMayPanic(a, t) ==
  \/ Includes(a.type, TimeTypes_) /\ IncludesEither(t, t, TimeTypes_ \cup TextTypes)
  \/ Includes(a.type, TextTypes) /\ Includes(t, {"Date64"})
  \/ Includes(a.type, FloatTypes) /\ Includes(t, {"Decimal"})
  \/ ~SmallOffsets(a, t) \/ ~Packs(t)

CastMayRefuse(f, t) ==
  \/ Includes(t, {"Dictionary"})
  \/ Includes(f, {"LargeUtf8", "LargeBinary"}) /\ Includes(t, SmallTexts)
  \/ Includes(f, {"Binary", "LargeBinary"}) /\ Includes(t, {"LargeUtf8"})
  \/ IncludesEither(f, t, {"Timestamp"})

\* What can_cast_types says is done and nothing else, dictionaries of some types
\* excepted; an array that was cast has the type that was asked for and as many
\* rows, each the number, the time, the text or the list that it was, if its type
\* has it, and null, wrapped or saturated if not, as was asked; a float is the
\* nearest one, infinite if there is none, and decimals have two limits.
CastsAreByRow ==
  /\ Answered("cast") =>
       LET a == call.array
           t == call.type
       IN  /\ UnitsFit(a.type) /\ UnitsFit(t) /\ (Packs(t) \/ ~CanCastTypes(a.type, t)) =>
                CanCastTypes(a.type, t) = (result # Unsupported)
           /\ result = Panic => CastMayPanic(a, t)
           /\ result = Refused => CastMayRefuse(a.type, t)
           /\ result \notin Failures =>
                /\ SizeOf(result) = SizeOf(a)
                /\ Packs(t) => result.type = t
                /\ SmallOffsets(a, t) =>
                     \A i \in 1 .. SizeOf(a) : ItemIsCast(Meanings(a)[i], Meanings(result)[i], a.type, t, call.options)
  /\ Answered("cast keys") /\ result # Refused =>
       /\ SizeOf(result) = SizeOf(call.array)
       /\ ~call.wraps => Meanings(result) = Meanings(call.array)
=============================================================================

----------------------------- MODULE Comparisons ------------------------------
(***************************************************************************)
(* Kernels of booleans (src/src/compute/boolean.rs, boolean_kleene.rs) and *)
(* comparisons.                                                            *)
(***************************************************************************)
EXTENDS Selections

LOCAL INSTANCE SequencesExt

(***************************************************************************)
(* Logic on arrays of booleans (src/src/compute/boolean.rs, and            *)
(* boolean_kleene.rs with three values).  A value is there behind a null   *)
(* too.                                                                    *)
(***************************************************************************)
\* Of the bits of l and r, if they are as many.
BitsOf(l, r, Op(_, _)) == [i \in DOMAIN l.values |-> Op(l.values[i], r.values[i])]

Zeros(a) == Repeat(FALSE, LeafLength(a))
Ones(a) == Repeat(TRUE, LeafLength(a))
NewNulls(a) == BooleanOf(Zeros(a), Zeros(a))
-----------------------------------------------------------------------------
(* boolean.rs: null if an operand is *)

BinaryBooleanKernel(l, r, Op(_, _)) ==
  IF ~SameLength(l, r) THEN Panic
  ELSE BooleanOf(BitsOf(l, r, Op), CombineValidities(l.validity, r.validity))

And(l, r) == BinaryBooleanKernel(l, r, LAMBDA a, b : a /\ b)
Or(l, r) == BinaryBooleanKernel(l, r, LAMBDA a, b : a \/ b)

Not(a) == BooleanOf([i \in DOMAIN a.values |-> ~a.values[i]], a.validity)

IsNull(a) ==
  BooleanOf(IF a.validity = NoValidity THEN Zeros(a) ELSE [i \in DOMAIN a.validity |-> ~a.validity[i]], NoValidity)

IsNotNull(a) == BooleanOf(IF a.validity = NoValidity THEN Ones(a) ELSE a.validity, NoValidity)

AndScalar(a, s) ==
  CASE s = TRUE -> a
    [] s = FALSE -> BooleanOf(Zeros(a), a.validity)
    [] s = Null -> NewNulls(a)

OrScalar(a, s) ==
  CASE s = TRUE -> BooleanOf(Ones(a), a.validity)
    [] s = FALSE -> a
    [] s = Null -> NewNulls(a)

\* any and all, the same in both modules.
AnyTrue(a) == \E i \in DOMAIN a.values : Valid(a.validity, i) /\ a.values[i]

AllTrue(a) == a.values # << >> /\ NullsOf(a) = {} /\ \A i \in DOMAIN a.values : a.values[i]
-----------------------------------------------------------------------------
(* boolean_kleene.rs: null if the operands leave the result open *)

\* A value is known where the validity, if any, says so.
KleeneOr(l, r) ==
  LET known == [i \in DOMAIN l.values |->
        LET a == l.values[i]
            b == r.values[i]
            lv == Valid(l.validity, i)
            rv == Valid(r.validity, i)
        IN  (a /\ lv) \/ (b /\ rv) \/ ((~a /\ lv) /\ (~b /\ rv))]
      bits == IF l.validity = NoValidity /\ r.validity = NoValidity THEN NoValidity ELSE known
  IN  IF ~SameLength(l, r) THEN Panic ELSE BooleanOf(BitsOf(l, r, LAMBDA a, b : a \/ b), bits)

\* A bug: a false operand that is null decides as well.
KleeneAndOfValues(l, r) ==
  LET known == [i \in DOMAIN l.values |->
        LET a == l.values[i]
            b == r.values[i]
            lv == Valid(l.validity, i)
            rv == Valid(r.validity, i)
        IN  ~b \/ (~a /\ lv) \/ ((a /\ lv) /\ (b /\ rv))]
      bits == IF l.validity = NoValidity /\ r.validity = NoValidity THEN NoValidity ELSE known
  IN  IF ~SameLength(l, r) THEN Panic ELSE BooleanOf(BitsOf(l, r, LAMBDA a, b : a /\ b), bits)

KleeneAnd(l, r) ==
  LET known == [i \in DOMAIN l.values |->
        LET a == l.values[i]
            b == r.values[i]
            lv == Valid(l.validity, i)
            rv == Valid(r.validity, i)
        IN  (~b /\ rv) \/ (~a /\ lv) \/ ((a /\ lv) /\ (b /\ rv))]
      bits == IF l.validity = NoValidity /\ r.validity = NoValidity THEN NoValidity ELSE known
  IN  IF ~SameLength(l, r) THEN Panic ELSE BooleanOf(BitsOf(l, r, LAMBDA a, b : a /\ b), bits)

KleeneOrScalar(a, s) ==
  CASE s = TRUE -> BooleanOf(Ones(a), NoValidity)
    [] s = FALSE -> a
    [] s = Null -> BooleanOf(a.values, [i \in DOMAIN a.values |-> Valid(a.validity, i) /\ a.values[i]])

KleeneAndScalar(a, s) ==
  CASE s = TRUE -> a
    [] s = FALSE -> BooleanOf(Zeros(a), NoValidity)
    [] s = Null -> BooleanOf(a.values, [i \in DOMAIN a.values |-> Valid(a.validity, i) /\ ~a.values[i]])
-----------------------------------------------------------------------------
(* Calls: [kernel, op, kleene, left, right], right an array or a scalar. *)

LogicResult(c) ==
  CASE c.op = "and" -> (IF c.kleene THEN KleeneAnd(c.left, c.right) ELSE And(c.left, c.right))
    [] c.op = "or"  -> (IF c.kleene THEN KleeneOr(c.left, c.right) ELSE Or(c.left, c.right))

LogicScalarResult(c) ==
  CASE c.op = "and" -> (IF c.kleene THEN KleeneAndScalar(c.left, c.right) ELSE AndScalar(c.left, c.right))
    [] c.op = "or"  -> (IF c.kleene THEN KleeneOrScalar(c.left, c.right) ELSE OrScalar(c.left, c.right))

LogicUnaryResult(c) ==
  CASE c.op = "not" -> Not(c.left)
    [] c.op = "is_null" -> IsNull(c.left)
    [] c.op = "is_not_null" -> IsNotNull(c.left)

DecideArrays == Returns("logic", LogicResult(call))
DecideScalar == Returns("logic_scalar", LogicScalarResult(call))
DecideUnary == Returns("logic_unary", LogicUnaryResult(call))
DecideWhole == Returns("logic_whole", IF call.op = "any" THEN AnyTrue(call.left) ELSE AllTrue(call.left))

LogicNext == DecideArrays \/ DecideScalar \/ DecideUnary \/ DecideWhole

\* What a kernel of logic is called with.
LogicCalls ==
  LET Booleans == LeafArrays("boolean", BOOLEAN)
  IN  [kernel : {"logic"}, op : {"and", "or"}, kleene : BOOLEAN, left : Booleans, right : Booleans]
        \cup [kernel : {"logic_scalar"}, op : {"and", "or"}, kleene : BOOLEAN, left : Booleans, right : BOOLEAN \cup {Null}]
        \cup [kernel : {"logic_unary"}, op : {"not", "is_null", "is_not_null"}, left : Booleans]
        \cup [kernel : {"logic_whole"}, op : {"any", "all"}, left : Booleans]

LogicSpec == KernelInit /\ call \in LogicCalls /\ [][LogicNext]_kvars
-----------------------------------------------------------------------------
\* What a and b allow, a null being either: one value, or open.
Possible(op, a, b) ==
  LET Of(x) == IF x = Null THEN BOOLEAN ELSE {x}
  IN  {IF op = "and" THEN x /\ y ELSE x \/ y : x \in Of(a), y \in Of(b)}

Decided(op, kleene, a, b) ==
  CASE ~kleene /\ Null \in {a, b} -> Null
    [] Possible(op, a, b) = BOOLEAN -> Null
    [] OTHER -> CHOOSE x \in Possible(op, a, b) : TRUE

\* Two values give a null if one of them is; with Kleene's logic only if the result
\* depends on what is null.  Whatever bits are behind the nulls, and whichever of
\* the operands has a validity, and only arrays that differ in length panic.
LogicIsByRow ==
  LET c == call
      rows == LeafItems(c.left)
      Other(i) == IF c.kernel = "logic" THEN LeafItems(c.right)[i] ELSE c.right
  IN  /\ Answered("logic") => (result = Panic <=> ~SameLength(c.left, c.right))
      /\ (Answered("logic") \/ Answered("logic_scalar")) /\ result # Panic =>
           LeafItems(result) = [i \in DOMAIN rows |-> Decided(c.op, c.kleene, rows[i], Other(i))]
      /\ Answered("logic_unary") =>
           LeafItems(result) =
             [i \in DOMAIN rows |->
                CASE c.op = "is_null" -> rows[i] = Null
                  [] c.op = "is_not_null" -> rows[i] # Null
                  [] OTHER -> IF rows[i] = Null THEN Null ELSE ~rows[i]]
      /\ Answered("logic_whole") =>
           result = IF c.op = "any" THEN \E i \in DOMAIN rows : rows[i] = TRUE
                    ELSE rows # << >> /\ \A i \in DOMAIN rows : rows[i] = TRUE
-----------------------------------------------------------------------------
(***************************************************************************)
(* Comparisons of arrays with arrays and scalars (src/src/compute/         *)
(* comparison), nullif and contains.  Primitive values are compared by     *)
(* lanes, and the last lanes are filled up; booleans are compared by the   *)
(* formulas of words of bits.                                              *)
(***************************************************************************)
\* Of bytes, as slices of them are ordered.
Before(s, t) ==
  \/ IsStrictPrefix(s, t)
  \/ \E k \in DOMAIN s \cap DOMAIN t : s[k] < t[k] /\ SubSeq(s, 1, k - 1) = SubSeq(t, 1, k - 1)

\* What of two values is so.
Compares(op, a, b, Less(_, _)) ==
  CASE op = "eq"    -> a = b
    [] op = "neq"   -> a # b
    [] op = "lt"    -> Less(a, b)
    [] op = "lt_eq" -> Less(a, b) \/ a = b
    [] op = "gt"    -> Less(b, a)
    [] op = "gt_eq" -> Less(b, a) \/ a = b

OfNumbers(op, a, b) == Compares(op, a, b, LAMBDA x, y : x < y)
OfStrings(op, a, b) == Compares(op, a, b, Before)
-----------------------------------------------------------------------------
(* primitive.rs, simd/mod.rs *)

\* The values of chunk k, the last one filled up with defaults.
Chunk(s, k) ==
  [i \in 1 .. Lanes |-> LET at == (k - 1) * Lanes + i IN IF at <= Len(s) THEN s[at] ELSE 0]

ChunksOf(s) == (Len(s) + Lanes - 1) \div Lanes

\* Bits made of the chunks, of which the array has as many as it has values.
Lanewise(op, s, Other(_)) ==
  LET bytes == [k \in 1 .. ChunksOf(s) |->
                 [i \in 1 .. Lanes |-> OfNumbers(op, Chunk(s, k)[i], Other(k)[i])]]
  IN  SubSeq(FlattenSeq(bytes), 1, Len(s))

CompareValuesOp(op, s, t) == Lanewise(op, s, LAMBDA k : Chunk(t, k))
CompareValuesOpScalar(op, s, x) == Lanewise(op, s, LAMBDA k : Repeat(x, Lanes))
-----------------------------------------------------------------------------
(* boolean.rs *)

CompareBits(op, s, t) ==
  [i \in DOMAIN s |->
     LET a == s[i]
         b == t[i]
     IN  CASE op = "eq"    -> a <=> b
           [] op = "neq"   -> ~(a <=> b)
           [] op = "lt"    -> ~a /\ b
           [] op = "lt_eq" -> ~a \/ b
           [] op = "gt"    -> a /\ ~b
           [] op = "gt_eq" -> a \/ ~b]

\* A scalar leaves the bits, negates them, or decides.
CompareBitsScalar(op, s, x) ==
  CASE <<op, x>> \in {<<"eq", TRUE>>, <<"neq", FALSE>>, <<"gt", FALSE>>, <<"gt_eq", TRUE>>} -> s
    [] <<op, x>> \in {<<"eq", FALSE>>, <<"neq", TRUE>>, <<"lt", TRUE>>, <<"lt_eq", FALSE>>} -> [i \in DOMAIN s |-> ~s[i]]
    [] <<op, x>> \in {<<"lt", FALSE>>, <<"gt", TRUE>>} -> Repeat(FALSE, Len(s))
    [] OTHER -> Repeat(TRUE, Len(s))
-----------------------------------------------------------------------------
(* utf8.rs, binary.rs: item by item, those behind nulls too *)

StringsOf(a) == [i \in 1 .. LeafLength(a) |-> LeafValue(a, i)]

CompareStrings(op, s, t) == [i \in DOMAIN s |-> OfStrings(op, s[i], t[i])]
-----------------------------------------------------------------------------
(* mod.rs *)

CompareLeaves(op, l, r) ==
  CASE l.kind = "primitive" -> CompareValuesOp(op, l.values, r.values)
    [] l.kind = "boolean" -> CompareBits(op, l.values, r.values)
    [] Lengthy(l) -> CompareStrings(op, StringsOf(l), StringsOf(r))

CompareLeafScalar(op, a, x) ==
  CASE a.kind = "primitive" -> CompareValuesOpScalar(op, a.values, x)
    [] a.kind = "boolean" -> CompareBitsScalar(op, a.values, x)
    [] Lengthy(a) -> CompareStrings(op, StringsOf(a), Repeat(x, LeafLength(a)))

\* Values that are equal are so if both or none are valid.
FinishEqValidities(bits, l, r) ==
  CASE l = NoValidity /\ r = NoValidity -> bits
    [] r = NoValidity -> [i \in DOMAIN bits |-> bits[i] /\ l[i]]
    [] l = NoValidity -> [i \in DOMAIN bits |-> bits[i] /\ r[i]]
    [] OTHER -> [i \in DOMAIN bits |-> bits[i] /\ (l[i] <=> r[i])]

\* A bug: of two arrays with nulls only those of the first count.
FinishNeqOfFirst(bits, l, r) ==
  IF l = NoValidity THEN bits ELSE [i \in DOMAIN bits |-> bits[i] \/ ~l[i]]

FinishNeqValidities(bits, l, r) ==
  CASE l = NoValidity /\ r = NoValidity -> bits
    [] r = NoValidity -> [i \in DOMAIN bits |-> bits[i] \/ ~l[i]]
    [] l = NoValidity -> [i \in DOMAIN bits |-> bits[i] \/ ~r[i]]
    [] OTHER -> [i \in DOMAIN bits |-> bits[i] \/ ~(l[i] <=> r[i])]

Finished(op, bits, l, r) ==
  BooleanOf(IF op = "eq" THEN FinishEqValidities(bits, l, r) ELSE FinishNeqValidities(bits, l, r), NoValidity)

Compare(op, andValidity, l, r) ==
  LET bits == CompareLeaves(op, l, r)
  IN  CASE l.kind # r.kind \/ ~SameLength(l, r) -> Panic
        [] andValidity -> Finished(op, bits, l.validity, r.validity)
        [] OTHER -> BooleanOf(bits, CombineValidities(l.validity, r.validity))

\* A scalar has a type and a value.
CompareScalarOf(op, andValidity, a, s) ==
  LET bits == CompareLeafScalar(op, a, s.value)
  IN  CASE a.kind # s.type -> Panic
        [] s.value = Null -> NewNulls(a)
        [] andValidity -> Finished(op, bits, a.validity, NoValidity)
        [] OTHER -> BooleanOf(bits, a.validity)

\* The scalar of a dictionary has the dictionary's type, and is compared with its values.
CompareScalar(op, andValidity, a, s) ==
  LET keys == a.leaves[1]
      values == CompareScalarOf(op, andValidity, a.leaves[2], s)
  IN  CASE a.kind # "dictionary" -> CompareScalarOf(op, andValidity, a.leaves[1], s)
        [] s.type # "dictionary" -> Panic
        [] s.value = Null -> NewNulls(keys)
        [] OTHER -> IF values = Panic THEN Panic ELSE TakeBoolean(values, << >>, keys)
-----------------------------------------------------------------------------
(* nullif.rs, contains.rs *)

\* Marked null where the values are equal, those behind the nulls of the right as well.
NulledWhere(a, bits) ==
  PrimitiveOf(a.values, CombineValidities(a.validity, OptionalBits(bits)))

NullIf(l, r) ==
  CASE l.kind # r.kind \/ ~SameLength(l, r) -> Panic
    [] l.kind # "primitive" -> Unsupported
    [] OTHER -> NulledWhere(l, CompareValuesOp("neq", l.values, r.values))

NullIfScalar(l, s) ==
  CASE l.kind # s.type -> Panic
    [] l.kind # "primitive" -> Unsupported
    [] s.value = Null -> Panic
    [] OTHER -> NulledWhere(l, CompareValuesOpScalar("neq", l.values, s.value))

ContainsItem(list, a) ==
  LET rows == Rows(list)
      items == LeafItems(a)
      Has(i) == rows[i] # Null /\ items[i] # Null /\ \E k \in DOMAIN rows[i] : rows[i][k] = items[i]
  IN  CASE ArrayLength(list) # LeafLength(a) -> Refused
        [] list.leaves[1].kind # a.kind -> Refused
        [] OTHER -> BooleanOf([i \in DOMAIN items |-> Has(i)], CombineValidities(list.validity, a.validity))
-----------------------------------------------------------------------------
CompareArrays == Returns("compare", Compare(call.op, call.andValidity, call.left, call.right))
CompareWithScalar == Returns("compare_scalar", CompareScalar(call.op, call.andValidity, call.array, call.scalar))
NullEqual == Returns("nullif", NullIf(call.left, call.right))
NullEqualScalar == Returns("nullif_scalar", NullIfScalar(call.left, call.scalar))
SearchLists == Returns("contains", ContainsItem(call.array, call.right))

ComparisonNext == CompareArrays \/ CompareWithScalar \/ NullEqual \/ NullEqualScalar \/ SearchLists
-----------------------------------------------------------------------------
\* Whether two items of a kind compare: numbers, strings, and false before true.
Order(kind, op, a, b) ==
  Compares(op, a, b, LAMBDA x, y :
    CASE kind = "boolean" -> ~x /\ y
      [] kind = "primitive" -> x < y
      [] OTHER -> Before(x, y))

\* Rows compare as their items do, and are null if one of them is; whatever is
\* behind the nulls, and in the lanes behind the end.  A comparison that includes
\* validities has no nulls: a null differs from every value.  (Two nulls are then
\* compared by what is behind them.)
ArraysCompareByRow ==
  Answered("compare") /\ result # Panic =>
    LET l == LeafItems(call.left)
        r == LeafItems(call.right)
    IN  \A i \in DOMAIN l :
          CASE Null \notin {l[i], r[i]} -> LeafItems(result)[i] = Order(call.left.kind, call.op, l[i], r[i])
            [] ~call.andValidity -> LeafItems(result)[i] = Null
            [] l[i] # r[i] -> LeafItems(result)[i] = (call.op = "neq")
            [] OTHER -> LeafItems(result)[i] \in BOOLEAN

\* A row and a scalar compare as two rows do; with a null scalar nothing does.
ScalarIsARow ==
  Answered("compare_scalar") /\ result # Panic =>
    LET rows == Rows(call.array)
        s == call.scalar.value
    IN  LeafItems(result) =
          [i \in DOMAIN rows |->
             CASE s = Null -> Null
               [] rows[i] # Null -> Order(call.array.kind, call.op, rows[i], s)
               [] call.andValidity -> call.op = "neq"
               [] OTHER -> Null]

\* A row is nulled if and only if its value is that of the other row, the other being
\* null or not; the other rows stay.
NulledIfEqual ==
  LET Other(i) == IF call.kernel = "nullif" THEN call.right.values[i] ELSE call.scalar.value
  IN  (Answered("nullif") \/ Answered("nullif_scalar")) /\ result \notin {Panic, Unsupported} =>
        LeafItems(result) = [i \in DOMAIN call.left.values |->
          IF call.left.values[i] = Other(i) THEN Null ELSE LeafItems(call.left)[i]]

\* A list contains an item if one of its items is that, and no list contains a null:
\* the row is null if the list or the item is.
ContainsAnItem ==
  Answered("contains") /\ result # Refused =>
    LET rows == Rows(call.array)
        items == LeafItems(call.right)
    IN  LeafItems(result) = [i \in DOMAIN items |->
          IF rows[i] = Null \/ items[i] = Null THEN Null ELSE items[i] \in ToSet(rows[i])]

\* Comparing arrays with arrays, scalars and lists is comparing their rows.
ComparisonIsByRow == ArraysCompareByRow /\ ScalarIsARow /\ NulledIfEqual /\ ContainsAnItem
=============================================================================

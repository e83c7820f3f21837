----------------------------- MODULE Arithmetics ------------------------------
(***************************************************************************)
(* Calls of compute kernels, and the arithmetic of numbers, decimals and   *)
(* times (src/src/compute/arithmetics).                                    *)
(***************************************************************************)
EXTENDS ArrayData, Integers

LOCAL INSTANCE SequencesExt

(***************************************************************************)
(* A call of a compute kernel (src/src/compute).  Kernels are functions of *)
(* immutable arrays: a behaviour makes one call and gets one result.       *)
(***************************************************************************)
CONSTANTS
  NoResult,
  Panic,        \* the kernel panics
  Refused,      \* it returns an error
  Unsupported   \* it has no implementation for these types

VARIABLES call, result

kvars == << call, result >>

\* The call is the caller's.
KernelInit == result = NoResult

Returns(kernel, r) ==
  /\ call.kernel = kernel /\ result = NoResult
  /\ result' = r
  /\ UNCHANGED call

\* One of the results there may be.
ReturnsOneOf(kernel, results) ==
  /\ call.kernel = kernel /\ result = NoResult
  /\ result' \in results
  /\ UNCHANGED call

Answered(kernel) == call.kernel = kernel /\ result # NoResult

Failures == {Panic, Refused, Unsupported}

\* The leaves of a kind with some values, and a validity or none.
LeafArrays(kind, S) ==
  {leaf \in [kind : {kind}, values : Seq(S), offsets : {<< >>}, validity : Seq(BOOLEAN) \cup {NoValidity}] :
     Consistent(leaf)}

\* Null is no value, and a panic is neither a value nor an array.
ASSUME MarksAssumption ==
  /\ Null \notin Int \cup BOOLEAN /\ Panic \notin Int \cup {Null}
  /\ Panic \notin LeafArrays("primitive", Int) \cup LeafArrays("boolean", BOOLEAN)
  /\ Panic \notin [array : LeafArrays("primitive", Int), overflowed : Seq(BOOLEAN)]
-----------------------------------------------------------------------------
(* compute/utils.rs *)

CombineValidities(l, r) ==
  CASE l = NoValidity -> r
    [] r = NoValidity -> l
    [] OTHER -> [i \in DOMAIN l |-> l[i] /\ r[i]]

\* Bitmap to Option<Bitmap>: dropped when no bit is unset.
OptionalBits(bits) == IF \A i \in DOMAIN bits : bits[i] THEN NoValidity ELSE bits

SameLength(l, r) == LeafLength(l) = LeafLength(r)

PrimitiveOf(values, bits) ==
  [kind |-> "primitive", values |-> values, offsets |-> << >>, validity |-> bits]

BooleanOf(values, bits) == [PrimitiveOf(values, bits) EXCEPT !.kind = "boolean"]

NullsOf(leaf) == {i \in 1 .. LeafLength(leaf) : ~Valid(leaf.validity, i)}
-----------------------------------------------------------------------------
(***************************************************************************)
(* Arithmetic on primitive arrays (src/src/compute/arithmetics/basic): the *)
(* operation runs over every value, those behind nulls too, and what       *)
(* becomes of an overflow depends on the flavour of the kernel.            *)
(***************************************************************************)
CONSTANTS MinInt, MaxInt   \* the range of the integer type

ASSUME IntAssumption == MinInt \in Int /\ MaxInt \in Nat /\ MinInt <= 0

Ints == MinInt .. MaxInt
-----------------------------------------------------------------------------
(* The integers of the type: core's operators and num_traits'. *)

Wrapped(x) == MinInt + ((x - MinInt) % (MaxInt - MinInt + 1))
Saturated(x) == IF x < MinInt THEN MinInt ELSE IF x > MaxInt THEN MaxInt ELSE x

\* An operator panics when it overflows if the build checks for it, else wraps.
Native(x, checks) == IF x \in Ints THEN x ELSE IF checks THEN Panic ELSE Wrapped(x)

Checked(x) == IF x \in Ints THEN x ELSE Null

Abs(x) == IF x < 0 THEN -x ELSE x

\* Division towards zero.
Quotient(a, b) == IF (a < 0) = (b < 0) THEN Abs(a) \div Abs(b) ELSE -(Abs(a) \div Abs(b))

Remainder(a, b) == a - b * Quotient(a, b)

\* / and %, which check in every build.
Divided(a, b) == IF b = 0 \/ Quotient(a, b) \notin Ints THEN Panic ELSE Quotient(a, b)
Rest(a, b) == IF b = 0 \/ Quotient(a, b) \notin Ints THEN Panic ELSE Remainder(a, b)

Power(x, n) == IF n = 0 THEN 1 ELSE x ^ n

NullIfPanic(x) == IF x = Panic THEN Null ELSE x
-----------------------------------------------------------------------------
(* compute/arity.rs *)

\* The new array; a panic in the middle leaves none.
Collected(values, bits) ==
  IF \E i \in DOMAIN values : values[i] = Panic THEN Panic ELSE PrimitiveOf(values, bits)

Unary(a, Op(_)) == Collected([i \in DOMAIN a.values |-> Op(a.values[i])], a.validity)

Binary(l, r, Op(_, _)) ==
  IF ~SameLength(l, r) THEN Panic
  ELSE Collected([i \in DOMAIN l.values |-> Op(l.values[i], r.values[i])],
                 CombineValidities(l.validity, r.validity))

\* A bug: the mark of a row that overflowed replaces the validity.
MarkedOnly(values, bits) ==
  PrimitiveOf([i \in DOMAIN values |-> IF values[i] = Null THEN 0 ELSE values[i]],
              [i \in DOMAIN values |-> values[i] # Null])

\* A row without a result becomes a null of the default value.
Marked(values, bits) ==
  PrimitiveOf([i \in DOMAIN values |-> IF values[i] = Null THEN 0 ELSE values[i]],
              CombineValidities(bits, [i \in DOMAIN values |-> values[i] # Null]))

UnaryChecked(a, Op(_)) == Marked([i \in DOMAIN a.values |-> Op(a.values[i])], a.validity)

BinaryChecked(l, r, Op(_, _)) ==
  IF ~SameLength(l, r) THEN Panic
  ELSE Marked([i \in DOMAIN l.values |-> Op(l.values[i], r.values[i])],
              CombineValidities(l.validity, r.validity))

Overflows(x) == x \notin Ints

\* Op's exact results, wrapped, and which of them overflowed.
UnaryWithBitmap(a, Op(_)) ==
  [array |-> Unary(a, LAMBDA x : Wrapped(Op(x))),
   overflowed |-> [i \in DOMAIN a.values |-> Overflows(Op(a.values[i]))]]

BinaryWithBitmap(l, r, Op(_, _)) ==
  IF ~SameLength(l, r) THEN Panic
  ELSE [array |-> Binary(l, r, LAMBDA x, y : Wrapped(Op(x, y))),
        overflowed |-> [i \in DOMAIN l.values |-> Overflows(Op(l.values[i], r.values[i]))]]
-----------------------------------------------------------------------------
(* basic/add.rs, sub.rs, mul.rs: the kernels of an operator that may overflow *)

OfArrays(flavour, l, r, Op(_, _), checks) ==
  CASE flavour = "plain"       -> Binary(l, r, LAMBDA x, y : Native(Op(x, y), checks))
    [] flavour = "wrapping"    -> Binary(l, r, LAMBDA x, y : Wrapped(Op(x, y)))
    [] flavour = "saturating"  -> Binary(l, r, LAMBDA x, y : Saturated(Op(x, y)))
    [] flavour = "checked"     -> BinaryChecked(l, r, LAMBDA x, y : Checked(Op(x, y)))
    [] flavour = "overflowing" -> BinaryWithBitmap(l, r, Op)

OfScalar(flavour, a, s, Op(_, _), checks) ==
  CASE flavour = "plain"       -> Unary(a, LAMBDA x : Native(Op(x, s), checks))
    [] flavour = "wrapping"    -> Unary(a, LAMBDA x : Wrapped(Op(x, s)))
    [] flavour = "saturating"  -> Unary(a, LAMBDA x : Saturated(Op(x, s)))
    [] flavour = "checked"     -> UnaryChecked(a, LAMBDA x : Checked(Op(x, s)))
    [] flavour = "overflowing" -> UnaryWithBitmap(a, LAMBDA x : Op(x, s))

Plus(x, y) == x + y
Minus(x, y) == x - y
Times(x, y) == x * y

Add(flavour, l, r, checks) == OfArrays(flavour, l, r, Plus, checks)
AddScalar(flavour, a, s, checks) == OfScalar(flavour, a, s, Plus, checks)
Sub(flavour, l, r, checks) == OfArrays(flavour, l, r, Minus, checks)
SubScalar(flavour, a, s, checks) == OfScalar(flavour, a, s, Minus, checks)
Mul(flavour, l, r, checks) == OfArrays(flavour, l, r, Times, checks)
MulScalar(flavour, a, s, checks) == OfScalar(flavour, a, s, Times, checks)

\* Rows are divided where neither is null if the divisor has nulls, else all are.
Div(flavour, l, r) ==
  IF flavour = "checked" THEN BinaryChecked(l, r, LAMBDA x, y : NullIfPanic(Divided(x, y)))
  ELSE IF NullsOf(r) = {} THEN Binary(l, r, Divided)
  ELSE IF ~SameLength(l, r) THEN Panic
  ELSE LET bits == [i \in DOMAIN l.values |-> Valid(l.validity, i) /\ Valid(r.validity, i)]
       IN  Collected([i \in DOMAIN bits |-> IF bits[i] THEN Divided(l.values[i], r.values[i]) ELSE 0],
                     OptionalBits(bits))

\* Unsigned integers are divided by a reduced divisor, which zero cannot be made into.
DivScalar(flavour, a, s) ==
  IF flavour = "checked" THEN UnaryChecked(a, LAMBDA x : NullIfPanic(Divided(x, s)))
  ELSE IF s = 0 /\ MinInt = 0 THEN Panic ELSE Unary(a, LAMBDA x : Divided(x, s))

Rem(flavour, l, r) ==
  IF flavour = "checked" THEN BinaryChecked(l, r, LAMBDA x, y : NullIfPanic(Rest(x, y)))
  ELSE Binary(l, r, Rest)

RemScalar(flavour, a, s) ==
  IF flavour = "checked" THEN UnaryChecked(a, LAMBDA x : NullIfPanic(Rest(x, s)))
  ELSE IF s = 0 /\ MinInt = 0 THEN Panic ELSE Unary(a, LAMBDA x : Rest(x, s))

Negate(flavour, a, checks) ==
  CASE flavour = "plain"    -> Unary(a, LAMBDA x : Native(-x, checks))
    [] flavour = "wrapping" -> Unary(a, LAMBDA x : Wrapped(-x))
    [] flavour = "checked"  -> UnaryChecked(a, LAMBDA x : Checked(-x))

\* checked_pow multiplies by squares, and gives up when any of them overflows that is used.
CheckedPowScalar(a, exponent) == UnaryChecked(a, LAMBDA x : Checked(Power(x, exponent)))
-----------------------------------------------------------------------------
(* Calls: [kernel, op, flavour, left, right], right an array or an integer. *)

Flavours == {"plain", "wrapping", "saturating", "checked", "overflowing"}

FlavoursOf(op) ==
  CASE op \in {"add", "sub", "mul"} -> Flavours
    [] op \in {"div", "rem"} -> {"plain", "checked"}
    [] op = "neg" -> {"plain", "wrapping", "checked"}
    [] op = "pow" -> {"checked"}

ArrayResult(c, checks) ==
  CASE c.op = "add" -> Add(c.flavour, c.left, c.right, checks)
    [] c.op = "sub" -> Sub(c.flavour, c.left, c.right, checks)
    [] c.op = "mul" -> Mul(c.flavour, c.left, c.right, checks)
    [] c.op = "div" -> Div(c.flavour, c.left, c.right)
    [] c.op = "rem" -> Rem(c.flavour, c.left, c.right)

ScalarResult(c, checks) ==
  CASE c.op = "add" -> AddScalar(c.flavour, c.left, c.right, checks)
    [] c.op = "sub" -> SubScalar(c.flavour, c.left, c.right, checks)
    [] c.op = "mul" -> MulScalar(c.flavour, c.left, c.right, checks)
    [] c.op = "div" -> DivScalar(c.flavour, c.left, c.right)
    [] c.op = "rem" -> RemScalar(c.flavour, c.left, c.right)
    [] c.op = "neg" -> Negate(c.flavour, c.left, checks)
    [] c.op = "pow" -> CheckedPowScalar(c.left, c.right)

OperateArrays == \E checks \in BOOLEAN : Returns("arithmetic", ArrayResult(call, checks))
OperateScalar == \E checks \in BOOLEAN : Returns("arithmetic_scalar", ScalarResult(call, checks))

ArithmeticNext == OperateArrays \/ OperateScalar

\* What a kernel of arithmetic is called with.
Numbers == LeafArrays("primitive", Ints)

ArithmeticCalls ==
  {c \in [kernel : {"arithmetic"}, op : {"add", "sub", "mul", "div", "rem"}, flavour : Flavours, left : Numbers, right : Numbers] :
     c.flavour \in FlavoursOf(c.op)}
  \cup {c \in [kernel : {"arithmetic_scalar"}, op : {"add", "sub", "mul", "div", "rem", "neg", "pow"}, flavour : Flavours,
              left : Numbers, right : Int] :
          /\ c.flavour \in FlavoursOf(c.op)
          /\ IF c.op = "pow" THEN c.right \in Nat ELSE c.right \in Ints \cup {0}}

ArithmeticSpec == KernelInit /\ call \in ArithmeticCalls /\ [][ArithmeticNext]_kvars
-----------------------------------------------------------------------------
(* What the documentation promises, row by row. *)

\* The other operand of row i.
Operand(i) == IF call.kernel = "arithmetic" THEN call.right.values[i] ELSE call.right

\* The result of a row in unbounded integers, Null if there is none.
Exact(i) ==
  LET a == call.left.values[i]
      b == Operand(i)
  IN  CASE call.op = "add" -> a + b
        [] call.op = "sub" -> a - b
        [] call.op = "mul" -> a * b
        [] call.op = "neg" -> -a
        [] call.op = "pow" -> Power(a, b)
        [] call.op = "div" -> (IF b = 0 THEN Null ELSE Quotient(a, b))
        [] call.op = "rem" -> (IF b = 0 \/ Quotient(a, b) \notin Ints THEN Null ELSE Remainder(a, b))

Fits(x) == x # Null /\ x \in Ints

RowIsNull(i) ==
  \/ ~Valid(call.left.validity, i)
  \/ call.kernel = "arithmetic" /\ ~Valid(call.right.validity, i)

\* What a row of this flavour holds.
Promised(i) ==
  IF RowIsNull(i) THEN Null
  ELSE IF Fits(Exact(i)) THEN Exact(i)
  ELSE CASE call.flavour = "checked" -> Null
         [] call.flavour = "saturating" -> Saturated(Exact(i))
         [] OTHER -> Wrapped(Exact(i))

ArithmeticAnswered == Answered("arithmetic") \/ Answered("arithmetic_scalar")

\* Every row is the exact result, or what the flavour makes of an overflow, and
\* null if an operand is: neither the values behind nulls nor another row's
\* overflow change it.
RowsArePromised ==
  ArithmeticAnswered /\ result # Panic =>
    LET array == IF call.flavour = "overflowing" THEN result.array ELSE result
    IN  LeafItems(array) = [i \in DOMAIN call.left.values |-> Promised(i)]

\* A kernel panics only if the lengths differ, or if it is a plain one and some
\* row -- a null one too -- has no result; the overflowing one names these rows.
PanicsForAReason ==
  ArithmeticAnswered =>
    /\ result = Panic =>
         \/ call.kernel = "arithmetic" /\ ~SameLength(call.left, call.right)
         \/ /\ call.flavour = "plain"
            /\ \/ \E i \in DOMAIN call.left.values : ~Fits(Exact(i))
               \/ call.right = 0 /\ call.op \in {"div", "rem"}
    /\ call.flavour = "overflowing" /\ result # Panic =>
         result.overflowed = [i \in DOMAIN call.left.values |-> ~Fits(Exact(i))]

\* Rows are promised results, and failures have a reason.
ArithmeticIsByRow == RowsArePromised /\ PanicsForAReason
-----------------------------------------------------------------------------
(***************************************************************************)
(* Decimal arithmetic (src/src/compute/arithmetics/decimal): integers with *)
(* a precision p, the digits they may have, and a scale s, the digits after*)
(* the point.  The integers are those of Arithmetics (i128 in the code).   *)
(***************************************************************************)
CONSTANT Base   \* of the digits: 10 in the code

ASSUME BaseAssumption == Base \in Nat \ {0, 1}

Decimal(p, s) == [precision |-> p, scale |-> s]

MaxValue(p) == Power(Base, p) - 1

NumberDigits(x) ==
  CHOOSE n \in 0 .. Abs(x) :
    Power(Base, n) > Abs(x) /\ (n = 0 \/ Power(Base, n - 1) <= Abs(x))

\* Precision, scale, and by how much the scales differ.
AdjustedPrecisionScale(l, r) ==
  LET before == IF l.precision - l.scale > r.precision - r.scale
                  THEN l.precision - l.scale ELSE r.precision - r.scale
      scale == IF l.scale > r.scale THEN l.scale ELSE r.scale
  IN  [precision |-> before + scale, scale |-> scale, diff |-> Abs(l.scale - r.scale)]
-----------------------------------------------------------------------------
(* An operation in i128: exact where the code checks it, native where not.  A *)
(* result the integers do not have is Overflow, a division by zero ByZero.    *)

CONSTANTS Overflow, ByZero

CheckedTimes(a, b) == IF a * b \in Ints THEN a * b ELSE Overflow

\* A bug: rounded downwards, not towards zero.
FlooredDiv(numeral, b) ==
  CASE numeral = Panic -> Panic
    [] b = 0 -> ByZero
    [] Quotient(numeral, b) \notin Ints -> ByZero
    [] OTHER -> IF (numeral < 0) = (b < 0) THEN Quotient(numeral, b)
                ELSE -((Abs(numeral) + Abs(b) - 1) \div Abs(b))

\* numeral / b: checked_div fails on zero, and on the least integer by -1.
CheckedDiv(numeral, b) ==
  CASE numeral = Panic -> Panic
    [] b = 0 -> ByZero
    [] Quotient(numeral, b) \notin Ints -> ByZero
    [] OTHER -> Quotient(numeral, b)

\* The value before it is compared with the precision.
RawValue(op, scale, a, b, checks) ==
  CASE op = "add" -> Native(a + b, checks)
    [] op = "sub" -> Native(a - b, checks)
    [] op = "mul" -> (IF CheckedTimes(a, b) = Overflow THEN Overflow ELSE Quotient(a * b, Power(Base, scale)))
    [] op = "div" -> CheckedDiv(Native(a * Power(Base, scale), checks), b)

\* The absolute value of the least integer overflows.
Raw(op, scale, a, b, checks) ==
  LET x == RawValue(op, scale, a, b, checks) IN IF x = MinInt /\ checks THEN Panic ELSE x

\* What x.abs() > max says: without checks the least integer's is negative.
Exceeds(x, max) == x # MinInt /\ Abs(x) > max

Fitted(flavour, raw, max) ==
  CASE raw = Panic -> Panic
    [] raw \in {Overflow, ByZero} ->
         (CASE flavour = "plain" -> Panic
            [] flavour = "checked" -> Null
            [] flavour = "saturating" -> IF raw = Overflow THEN max ELSE 0)
    [] Exceeds(raw, max) ->
         (CASE flavour = "plain" -> Panic
            [] flavour = "checked" -> Null
            [] flavour = "saturating" -> IF raw > 0 THEN max ELSE -max)
    [] OTHER -> raw

\* The kernels of two arrays of the same precision and scale.
OfDecimals(op, flavour, l, r, type, checks) ==
  LET Fit(a, b) == Fitted(flavour, Raw(op, type.scale, a, b, checks), MaxValue(type.precision))
      fits == [i \in DOMAIN l.values |-> Fit(l.values[i], r.values[i])]
  IN  CASE ~SameLength(l, r) -> Panic
        [] flavour = "checked" /\ (\E i \in DOMAIN fits : fits[i] = Panic) -> Panic
        [] flavour = "checked" -> BinaryChecked(l, r, Fit)
        [] OTHER -> Binary(l, r, Fit)

DecimalAdd(flavour, l, r, type, checks) == OfDecimals("add", flavour, l, r, type, checks)
DecimalSub(flavour, l, r, type, checks) == OfDecimals("sub", flavour, l, r, type, checks)
DecimalMul(flavour, l, r, type, checks) == OfDecimals("mul", flavour, l, r, type, checks)
DecimalDiv(flavour, l, r, type, checks) == OfDecimals("div", flavour, l, r, type, checks)

NewNull(n) == PrimitiveOf(Repeat(0, n), Repeat(FALSE, n))

\* mul_scalar, div_scalar: by Null, or by a number.
DecimalScalar(op, a, s, type, checks) ==
  IF s = Null THEN NewNull(LeafLength(a))
  ELSE Unary(a, LAMBDA x : Fitted("plain", Raw(op, type.scale, x, s, checks), MaxValue(type.precision)))
-----------------------------------------------------------------------------
(* The adaptive kernels: the side of the smaller scale is shifted, and the     *)
(* precision grows with the values.                                            *)

\* a shifted by n digits, natively.
Shifted(a, n, checks) == Native(a * Power(Base, n), checks)

AdaptiveValue(op, a, b, l, r, to, checks) ==
  LET x == IF l.scale > r.scale THEN a ELSE Shifted(a, to.diff, checks)
      y == IF l.scale > r.scale THEN Shifted(b, to.diff, checks) ELSE b
      numeral == Shifted(a, to.scale, checks)
  IN  CASE Panic \in {x, y} -> Panic
        [] op = "add" -> Native(x + y, checks)
        [] op = "sub" -> Native(x - y, checks)
        [] op = "mul" -> (IF x * y \notin Ints THEN Panic ELSE Quotient(x * y, Power(Base, to.scale)))
        [] op = "div" /\ numeral = Panic -> Panic
        [] op = "div" ->
             LET top == IF l.scale > r.scale THEN numeral ELSE Shifted(numeral, to.diff, checks)
                 q == CheckedDiv(top, y)
             IN  IF q = ByZero THEN Panic ELSE q

\* The precision is not bounded here: the power of ten may leave the integers.
NativeMax(p, checks) ==
  LET power == Native(Power(Base, p), checks) IN IF power = Panic THEN Panic ELSE Native(power - 1, checks)

\* The precision after one more value, if its largest number can be had.
Widened(p, x, checks) ==
  LET wider == IF p # Panic /\ Exceeds(x, NativeMax(p, checks)) THEN NumberDigits(x) ELSE p
  IN  IF p = Panic \/ NativeMax(wider, checks) = Panic THEN Panic ELSE wider

Adaptive(op, a, b, l, r, checks) ==
  LET to == AdjustedPrecisionScale(l, r)
      values == [i \in DOMAIN a.values |-> AdaptiveValue(op, a.values[i], b.values[i], l, r, to, checks)]
      array == Collected(values, CombineValidities(a.validity, b.validity))
      first == IF NativeMax(to.precision, checks) = Panic THEN Panic ELSE to.precision
      precision == FoldLeft(LAMBDA p, x : Widened(p, x, checks), first, values)
  IN  CASE ~SameLength(a, b) -> Refused
        [] first = Panic \/ array = Panic \/ precision = Panic -> Panic
        [] \E i \in DOMAIN values : values[i] = MinInt /\ checks -> Panic   \* res.abs()
        [] OTHER -> [array |-> array, type |-> Decimal(precision, to.scale)]

AdaptiveAdd(a, b, l, r, checks) == Adaptive("add", a, b, l, r, checks)
AdaptiveSub(a, b, l, r, checks) == Adaptive("sub", a, b, l, r, checks)
AdaptiveMul(a, b, l, r, checks) == Adaptive("mul", a, b, l, r, checks)
AdaptiveDiv(a, b, l, r, checks) == Adaptive("div", a, b, l, r, checks)
-----------------------------------------------------------------------------
(* Calls: [kernel, op, flavour, left, right, leftType, rightType] *)

DecimalFlavours == {"plain", "checked", "saturating"}

\* get_parameters, unwrapped: precisions and scales are to be the same.
DecimalResult(c, checks) ==
  CASE c.leftType # c.rightType -> Panic
    [] c.op = "add" -> DecimalAdd(c.flavour, c.left, c.right, c.leftType, checks)
    [] c.op = "sub" -> DecimalSub(c.flavour, c.left, c.right, c.leftType, checks)
    [] c.op = "mul" -> DecimalMul(c.flavour, c.left, c.right, c.leftType, checks)
    [] c.op = "div" -> DecimalDiv(c.flavour, c.left, c.right, c.leftType, checks)

AdaptiveResult(c, checks) ==
  CASE c.op = "add" -> AdaptiveAdd(c.left, c.right, c.leftType, c.rightType, checks)
    [] c.op = "sub" -> AdaptiveSub(c.left, c.right, c.leftType, c.rightType, checks)
    [] c.op = "mul" -> AdaptiveMul(c.left, c.right, c.leftType, c.rightType, checks)
    [] c.op = "div" -> AdaptiveDiv(c.left, c.right, c.leftType, c.rightType, checks)

OperateDecimals == \E checks \in BOOLEAN : Returns("decimal", DecimalResult(call, checks))
OperateAdaptive == \E checks \in BOOLEAN : Returns("adaptive", AdaptiveResult(call, checks))
OperateDecimalScalar == \E checks \in BOOLEAN :
  Returns("decimal_scalar", DecimalScalar(call.op, call.left, call.right, call.leftType, checks))

DecimalNext == OperateDecimals \/ OperateAdaptive \/ OperateDecimalScalar
-----------------------------------------------------------------------------
\* A decimal has no more digits than its type says.
HasDigits(array, p) ==
  \A i \in DOMAIN array.values :
    Valid(array.validity, i) /\ array.values[i] # MinInt => Abs(array.values[i]) <= MaxValue(p)

\* Whatever overflows, in the precision or in i128, no kernel makes a decimal
\* that its type does not allow; but for the least integer, which a build that
\* does not check overflows lets through.
DecimalsHaveTheirDigits ==
  /\ (Answered("decimal") \/ Answered("decimal_scalar")) /\ result # Panic =>
       HasDigits(result, call.leftType.precision)
  /\ Answered("adaptive") /\ result \notin Failures =>
       HasDigits(result.array, result.type.precision)

\* The result over Base ^ scale, multiplied out: l op r rounded towards zero.
ExactDecimal(op, a, l, b, r, scale) ==
  LET x == a * Power(Base, scale - l.scale)
      y == b * Power(Base, scale - r.scale)
  IN  CASE op = "add" -> x + y
        [] op = "sub" -> x - y
        [] op = "mul" -> Quotient(x * y, Power(Base, scale))
        [] op = "div" -> (IF b = 0 THEN Null ELSE Quotient(x * Power(Base, scale), y))

Room == MinInt + 1 .. MaxInt

\* No step of the operation on row i leaves the integers that have an absolute value.
StaysInside(i) ==
  LET a == call.left.values[i]
      b == IF call.kernel = "decimal_scalar" THEN call.right ELSE call.right.values[i]
      scale == IF call.leftType.scale > call.rightType.scale THEN call.leftType.scale ELSE call.rightType.scale
      x == a * Power(Base, scale - call.leftType.scale)
      y == b * Power(Base, scale - call.rightType.scale)
  IN  /\ {x, y} \subseteq Room
      /\ CASE call.op = "add" -> x + y \in Room
           [] call.op = "sub" -> x - y \in Room
           [] call.op = "mul" -> x * y \in Room
           [] call.op = "div" -> b # 0 /\ {a * Power(Base, scale), x * Power(Base, scale)} \subseteq Room

DecimalRow(i) ==
  LET b == IF call.kernel = "decimal_scalar" THEN call.right ELSE call.right.values[i]
      array == IF call.kernel = "adaptive" THEN result.array ELSE result
      scale == IF call.kernel = "adaptive" THEN result.type.scale ELSE call.leftType.scale
      exact == ExactDecimal(call.op, call.left.values[i], call.leftType, b, call.rightType, scale)
      max == MaxValue(call.leftType.precision)
      row == LeafItems(array)[i]
  IN  CASE \/ ~Valid(call.left.validity, i)
           \/ call.kernel # "decimal_scalar" /\ ~Valid(call.right.validity, i) -> row = Null
        [] ~StaysInside(i) -> TRUE
        [] call.kernel = "adaptive" \/ Abs(exact) <= max -> row = exact
        [] call.flavour = "checked" -> row = Null
        [] OTHER -> row = (IF exact > 0 THEN max ELSE -max)

\* A row whose operation stays in i128 is the decimal result, rounded towards
\* zero, at the scale of the result, or what the flavour makes of a result with
\* too many digits: rows do not depend on each other, nor on what is behind nulls.
RowsAreExact ==
  (Answered("decimal") \/ Answered("adaptive") \/ Answered("decimal_scalar"))
    /\ result \notin Failures /\ call.right # Null =>
       \A i \in DOMAIN call.left.values : DecimalRow(i)

\* Rows are exact where i128 allows it, and digits are kept where it does not.
DecimalsAreExact == RowsAreExact /\ DecimalsHaveTheirDigits
-----------------------------------------------------------------------------
(***************************************************************************)
(* Durations added to and taken from times and dates, and differences of   *)
(* timestamps (src/src/compute/arithmetics/time.rs), in units that differ. *)
(* The operand becomes a float, is multiplied by another one and is cut to *)
(* an integer: each of these floats is rounded.  Calendars (add_interval)  *)
(* are left out.                                                           *)
(***************************************************************************)
CONSTANTS
  Milli,    \* of a unit in the next larger one: 1000 in the code
  Day,      \* seconds in a day
  FloatBits \* that a float has: 53 in the code, where integers have up to 63

ASSUME UnitAssumption == Milli \in Nat \ {0} /\ Day \in Nat \ {0} /\ FloatBits \in Nat \ {0}

Units == {"Second", "Millisecond", "Microsecond", "Nanosecond"}

\* A logical type: its class, and its unit if it has one.
Temporal(class, unit) == [class |-> class, unit |-> unit]

TicksPerSecond(unit) ==
  CASE unit = "Second" -> 1
    [] unit = "Millisecond" -> Milli
    [] unit = "Microsecond" -> Milli * Milli
    [] unit = "Nanosecond" -> Milli * Milli * Milli

Ratio(num, den) == [num |-> num, den |-> den]

\* How often x can be halved before it is less than two.
Halvings(x) == CHOOSE n \in 0 .. x : 2 ^ n <= x /\ x < 2 ^ (n + 1)

\* 2 ^ n, or one if n is negative.
TwoTo(n) == IF n > 0 THEN 2 ^ n ELSE 1

\* The nearest integer of a / b, the even one of two.
HalfEven(a, b) ==
  LET whole == a \div b
      twice == 2 * (a % b)
  IN  IF twice > b \/ (twice = b /\ whole % 2 = 1) THEN whole + 1 ELSE whole

\* The nearest float of so many bits, its exponent unbounded.
Rounded(q, bits) ==
  LET near == Halvings(Abs(q.num)) - Halvings(q.den)
      atMost == Abs(q.num) * TwoTo(-near) >= q.den * TwoTo(near)
      last == (IF atMost THEN near ELSE near - 1) - bits + 1
      size == HalfEven(Abs(q.num) * TwoTo(-last), q.den * TwoTo(last))
  IN  IF q.num = 0 THEN Ratio(0, 1) ELSE Ratio((IF q.num < 0 THEN -size ELSE size) * TwoTo(last), TwoTo(-last))

\* Whole scales are floats: 10 ^ 9 has fewer bits than an f64.
TimeunitScale(a, b) ==
  LET scale == Ratio(TicksPerSecond(a), TicksPerSecond(b))
  IN  IF scale.num % scale.den = 0 THEN Ratio(scale.num \div scale.den, 1) ELSE Rounded(scale, FloatBits)

\* timeunit_scale / SECONDS_IN_DAY
ScaleOfDays(unit) ==
  LET scale == TimeunitScale("Second", unit) IN Rounded(Ratio(scale.num, scale.den * Day), FloatBits)

\* A bug: dates in milliseconds are taken for dates in days.
CreateScaleOfDays(l, r) ==
  IF l.class \in {"Date32", "Date64"} THEN ScaleOfDays(r.unit) ELSE TimeunitScale(l.unit, r.unit)

\* By what a duration of type r is multiplied before it is added to an l.
CreateScale(l, r) ==
  CASE l.class \in {"Timestamp", "Time32", "Time64"} -> TimeunitScale(l.unit, r.unit)
    [] l.class = "Date32" -> ScaleOfDays(r.unit)
    [] l.class = "Date64" -> TimeunitScale("Millisecond", r.unit)

\* (x as f64 * scale).as_(): both floats are rounded, the integer is cut and saturated.
Cut(x, scale) ==
  LET float == Rounded(Ratio(x, 1), FloatBits)
      scaled == Rounded(Ratio(float.num * scale.num, float.den * scale.den), FloatBits)
  IN  Saturated(Quotient(scaled.num, scaled.den))

Dated(array, type) == [array |-> array, type |-> type]

AddDuration(t, d, l, r, checks) ==
  Dated(Binary(t, d, LAMBDA a, b : Native(a + Cut(b, CreateScale(l, r)), checks)), l)

SubtractDuration(t, d, l, r, checks) ==
  Dated(Binary(t, d, LAMBDA a, b : Native(a - Cut(b, CreateScale(l, r)), checks)), l)

SubtractTimestamps(t, u, l, r, checks) ==
  Dated(Binary(t, u, LAMBDA a, b : Native(a - Cut(b, TimeunitScale(l.unit, r.unit)), checks)),
        Temporal("Duration", l.unit))

AllNull(t) == PrimitiveOf([i \in DOMAIN t.values |-> 0], [i \in DOMAIN t.values |-> FALSE])

AddDurationScalar(t, s, l, r, checks) ==
  IF s = Null THEN Dated(AllNull(t), l)
  ELSE Dated(Unary(t, LAMBDA a : Native(a + Cut(s, CreateScale(l, r)), checks)), l)

SubDurationScalar(t, s, l, r, checks) ==
  IF s = Null THEN Dated(AllNull(t), l)
  ELSE Dated(Unary(t, LAMBDA a : Native(a - Cut(s, CreateScale(l, r)), checks)), l)

\* Less a null timestamp, an array stays one of timestamps.
SubTimestampsScalar(t, s, l, r, checks) ==
  IF s = Null THEN Dated(AllNull(t), l)
  ELSE Dated(Unary(t, LAMBDA a : Native(a - Cut(s, TimeunitScale(l.unit, r.unit)), checks)),
             Temporal("Duration", l.unit))
-----------------------------------------------------------------------------
(* Calls: [kernel, op, left, right, leftType, rightType], right an array or a value. *)

TimeResult(c, checks) ==
  CASE c.op = "add" -> AddDuration(c.left, c.right, c.leftType, c.rightType, checks)
    [] c.op = "sub" -> SubtractDuration(c.left, c.right, c.leftType, c.rightType, checks)
    [] c.op = "difference" -> SubtractTimestamps(c.left, c.right, c.leftType, c.rightType, checks)

TimeScalarResult(c, checks) ==
  CASE c.op = "add" -> AddDurationScalar(c.left, c.right, c.leftType, c.rightType, checks)
    [] c.op = "sub" -> SubDurationScalar(c.left, c.right, c.leftType, c.rightType, checks)
    [] c.op = "difference" -> SubTimestampsScalar(c.left, c.right, c.leftType, c.rightType, checks)

OperateTimes == \E checks \in BOOLEAN : Returns("time", TimeResult(call, checks))
OperateTimeScalar == \E checks \in BOOLEAN : Returns("time_scalar", TimeScalarResult(call, checks))

DurationNext == OperateTimes \/ OperateTimeScalar
-----------------------------------------------------------------------------
\* A tick of a type in ticks of a nanosecond, the smallest unit.
Length(type) ==
  CASE type.class = "Date32" -> Day * TicksPerSecond("Nanosecond")
    [] type.class = "Date64" -> TicksPerSecond("Nanosecond") \div TicksPerSecond("Millisecond")
    [] OTHER -> TicksPerSecond("Nanosecond") \div TicksPerSecond(type.unit)

\* A number that a float of so many bits can hold.
IsFloat(x, bits) ==
  x = 0 \/ \E n \in 0 .. Halvings(Abs(x)) : x % 2 ^ n = 0 /\ Abs(x) \div 2 ^ n < 2 ^ bits

\* On the way to a float of ticks of type l.
Roundings(l) == IF l.class = "Date32" THEN 4 ELSE 3

\* d ticks of type r in ticks of type l: as many, if floats can hold them; what fits
\* of them if each rounding took, or added, as much as it can, if not.
MovedBy(l, d, r) ==
  LET Rounding(most) ==
        Saturated(Quotient(d * Length(r) * most ^ Roundings(l), Length(l) * (2 ^ FloatBits) ^ Roundings(l)))
      whole == d * (Length(r) \div Length(l))
      least == Rounding(2 ^ FloatBits - 1)
      greatest == Rounding(2 ^ FloatBits + 1)
  IN  IF Length(r) % Length(l) = 0 /\ IsFloat(d, FloatBits) /\ IsFloat(whole, FloatBits) THEN {Saturated(whole)}
      ELSE least .. greatest \cup greatest .. least

\* A row moves by as many whole ticks of its own unit as the operand is long, exactly
\* if its unit is not the larger one and the numbers have the bits of a float, and but
\* for what floats round if not, never against the operand's sign nor past the ends of
\* the integers; it is null if an operand is.  A difference of timestamps is a duration
\* -- but for a null operand, which leaves timestamps.
TimesMoveByTicks ==
  (Answered("time") \/ Answered("time_scalar")) /\ result.array # Panic =>
    LET rows == LeafItems(result.array)
        Other(i) == IF call.kernel = "time" THEN LeafItems(call.right)[i] ELSE call.right
        Direction == IF call.op = "add" THEN 1 ELSE -1
    IN  /\ \A i \in DOMAIN rows :
             IF LeafItems(call.left)[i] = Null \/ Other(i) = Null THEN rows[i] = Null
             ELSE \E moved \in MovedBy(call.leftType, Other(i), call.rightType) :
                    rows[i] = Wrapped(call.left.values[i] + Direction * moved)
        /\ result.type =
             IF call.op = "difference" /\ call.right # Null THEN Temporal("Duration", call.leftType.unit)
             ELSE call.leftType
=============================================================================

SPECIFICATION KernelSpec
CONSTANTS
  Null = Null
  NoValidity = NoValidity
  Size = 2
  MaxOffset = 3
  MaxKey = 1
  MaxLength = 3
  NoResult = NoResult
  Panic = Panic
  Refused = Refused
  Unsupported = Unsupported
  MinInt <- LeastInt
  MaxInt = 15
  Base = 2
  Milli = 3
  Day = 3
  FloatBits = 3
  Overflow = Overflow
  ByZero = ByZero
  Lanes = 2
  ByteWidth = 3
  Radix = 3
  KeptPrecision = 2
  Parts = 64
  SingleBits = 4
  DoubleBits = 5
  LeastInfinite = 128
  NaN = NaN
  Infinity = Infinity
  MinusInfinity = MinusInfinity
  MaxSmallOffset = 3
  NoPile = NoPile
INVARIANTS ArithmeticIsByRow DecimalsAreExact TimesMoveByTicks
INVARIANTS LogicIsByRow SelectionsAreByRow ComparisonIsByRow SortedIsOrdered MergedIsSorted SchemasAreKept CastsAreByRow
CHECK_DEADLOCK FALSE

--------------------------- MODULE KernelsProofs ----------------------------
(***************************************************************************)
(* A kernel answers row by row: the kernels of boolean and Kleene logic    *)
(* and the arithmetic of integers, for all arrays and scalars they are     *)
(* called with, all numbers of rows and, of the arithmetic, all widths of  *)
(* the integers.  A call is one step, so the argument is one lemma of each *)
(* kernel: what it returns is an array of the rows the property names, or  *)
(* it panics where the property says that it does.                         *)
(***************************************************************************)
EXTENDS Comparisons, FiniteSetTheorems, SequenceTheorems, TLAPS

-----------------------------------------------------------------------------
(* The rows of an array.                                                    *)

\* A validity of an array of n rows.
BitsFor(bits, n) == bits = NoValidity \/ (bits \in Seq(BOOLEAN) /\ Len(bits) = n)

\* An array of a kind with n values.
LeafOf(leaf, kind, S, n) ==
  /\ leaf = [kind |-> kind, values |-> leaf.values, offsets |-> << >>, validity |-> leaf.validity]
  /\ leaf.values \in Seq(S) /\ Len(leaf.values) = n /\ n \in Nat /\ DOMAIN leaf.values = 1 .. n
  /\ BitsFor(leaf.validity, n) /\ LeafLength(leaf) = n
  /\ LeafItems(leaf) = [i \in 1 .. n |-> IF Valid(leaf.validity, i) THEN leaf.values[i] ELSE Null]

\* An array of numbers or of booleans has its values for rows.
LEMMA LeafIs ==
  ASSUME NEW kind \in {"primitive", "boolean"}, NEW S, NEW leaf \in LeafArrays(kind, S)
  PROVE  LeafOf(leaf, kind, S, Len(leaf.values))
<1>1. /\ leaf \in [kind : {kind}, values : Seq(S), offsets : {<< >>}, validity : Seq(BOOLEAN) \cup {NoValidity}]
      /\ Consistent(leaf)
  BY DEF LeafArrays
<1>2. /\ leaf = [kind |-> kind, values |-> leaf.values, offsets |-> << >>, validity |-> leaf.validity]
      /\ leaf.values \in Seq(S) /\ leaf.kind = kind /\ leaf.validity \in Seq(BOOLEAN) \cup {NoValidity}
  BY <1>1
<1>3. Len(leaf.values) \in Nat /\ DOMAIN leaf.values = 1 .. Len(leaf.values)
  BY <1>2, LenProperties
<1>4. ~Lengthy(leaf) /\ leaf.kind # "bytes"
  BY <1>2 DEF Lengthy
<1>5. LeafLength(leaf) = Len(leaf.values)
  BY <1>4 DEF LeafLength
<1>6. \A i : LeafValue(leaf, i) = leaf.values[i]
  BY <1>4 DEF LeafValue
<1>7. BitsFor(leaf.validity, Len(leaf.values))
  BY <1>1, <1>2, <1>5 DEF Consistent, BitsFor
<1>8. LeafItems(leaf) = [i \in 1 .. Len(leaf.values) |-> IF Valid(leaf.validity, i) THEN leaf.values[i] ELSE Null]
  BY <1>5, <1>6 DEF LeafItems
<1> QED BY <1>2, <1>3, <1>5, <1>7, <1>8 DEF LeafOf

\* An array made of values and a validity that are as many.
LEMMA LeafMade ==
  ASSUME NEW kind \in {"primitive", "boolean"}, NEW S, NEW n \in Nat, NEW values \in [1 .. n -> S], NEW bits, BitsFor(bits, n)
  PROVE  LET leaf == [kind |-> kind, values |-> values, offsets |-> << >>, validity |-> bits]
         IN  leaf \in LeafArrays(kind, S) /\ LeafOf(leaf, kind, S, n)
<1> DEFINE leaf == [kind |-> kind, values |-> values, offsets |-> << >>, validity |-> bits]
<1>1. values \in Seq(S) /\ Len(values) = n
  BY LenProperties DEF Seq
<1>2. leaf \in [kind : {kind}, values : Seq(S), offsets : {<< >>}, validity : Seq(BOOLEAN) \cup {NoValidity}]
  BY <1>1 DEF BitsFor
<1>3. leaf.values = values /\ leaf.kind = kind /\ leaf.validity = bits
  OBVIOUS
<1> HIDE DEF leaf
<1>4. ~Lengthy(leaf) /\ leaf.kind # "bytes"
  BY <1>3 DEF Lengthy
<1>5. LeafLength(leaf) = n
  BY <1>1, <1>3, <1>4 DEF LeafLength
<1>6. Consistent(leaf)
  BY <1>3, <1>4, <1>5 DEF Consistent, BitsFor
<1>7. leaf \in LeafArrays(kind, S)
  BY <1>2, <1>6 DEF LeafArrays
<1>8. LeafOf(leaf, kind, S, n)
  BY <1>1, <1>3, <1>7, LeafIs
<1> QED BY <1>7, <1>8 DEF leaf

\* The rows that values and a validity make.
Items(values, bits, n) == [i \in 1 .. n |-> IF Valid(bits, i) THEN values[i] ELSE Null]

LEMMA BooleanIs ==
  ASSUME NEW n \in Nat, NEW values \in [1 .. n -> BOOLEAN], NEW bits, BitsFor(bits, n)
  PROVE  /\ BooleanOf(values, bits) # Panic
         /\ LeafItems(BooleanOf(values, bits)) = Items(values, bits, n)
<1> DEFINE leaf == [kind |-> "boolean", values |-> values, offsets |-> << >>, validity |-> bits]
<1>1. BooleanOf(values, bits) = leaf
  BY DEF BooleanOf, PrimitiveOf
<1>2. leaf.values = values /\ leaf.validity = bits
  OBVIOUS
<1>3. leaf \in LeafArrays("boolean", BOOLEAN) /\ LeafOf(leaf, "boolean", BOOLEAN, n)
  BY LeafMade
<1> HIDE DEF leaf
<1>4. LeafItems(leaf) = Items(values, bits, n)
  BY <1>2, <1>3 DEF LeafOf, Items
<1> QED BY <1>1, <1>3, <1>4, MarksAssumption

LEMMA NumbersAre ==
  ASSUME NEW n \in Nat, NEW values \in [1 .. n -> Int], NEW bits, BitsFor(bits, n)
  PROVE  /\ PrimitiveOf(values, bits) \in LeafArrays("primitive", Int)
         /\ LeafItems(PrimitiveOf(values, bits)) = Items(values, bits, n)
<1> DEFINE leaf == [kind |-> "primitive", values |-> values, offsets |-> << >>, validity |-> bits]
<1>1. PrimitiveOf(values, bits) = leaf
  BY DEF PrimitiveOf
<1>2. leaf.values = values /\ leaf.validity = bits
  OBVIOUS
<1>3. leaf \in LeafArrays("primitive", Int) /\ LeafOf(leaf, "primitive", Int, n)
  BY LeafMade
<1> HIDE DEF leaf
<1>4. LeafItems(leaf) = Items(values, bits, n)
  BY <1>2, <1>3 DEF LeafOf, Items
<1> QED BY <1>1, <1>3, <1>4

\* A combined validity has a null where one of the two has.
LEMMA CombinedBits ==
  ASSUME NEW n \in Nat, NEW l, NEW r, BitsFor(l, n), BitsFor(r, n)
  PROVE  /\ BitsFor(CombineValidities(l, r), n)
         /\ \A i \in 1 .. n : Valid(CombineValidities(l, r), i) <=> Valid(l, i) /\ Valid(r, i)
<1>1. CASE l = NoValidity
  BY <1>1 DEF CombineValidities, Valid
<1>2. CASE l # NoValidity /\ r = NoValidity
  BY <1>2 DEF CombineValidities, Valid
<1>3. CASE l # NoValidity /\ r # NoValidity
  <2> DEFINE both == [i \in DOMAIN l |-> l[i] /\ r[i]]
  <2>1. l \in [1 .. n -> BOOLEAN] /\ r \in [1 .. n -> BOOLEAN] /\ Len(l) = n /\ Len(r) = n
    BY <1>3, LenProperties DEF BitsFor
  <2>2. DOMAIN l = 1 .. n
    BY <2>1
  <2>3. both \in [1 .. n -> BOOLEAN] /\ \A i \in 1 .. n : both[i] <=> l[i] /\ r[i]
    BY <2>1, <2>2
  <2>4. CombineValidities(l, r) = both
    BY <1>3 DEF CombineValidities
  <2> HIDE DEF both
  <2>5. both \in Seq(BOOLEAN) /\ Len(both) = n
    BY <2>3, LenProperties DEF Seq
  <2>6. BitsFor(both, n) /\ both # NoValidity
    BY <2>5, ArrayDataAssumption DEF BitsFor
  <2>7. \A i \in 1 .. n : Valid(both, i) <=> Valid(l, i) /\ Valid(r, i)
    BY <1>3, <2>1, <2>3, <2>5, <2>6 DEF Valid
  <2> QED BY <2>4, <2>6, <2>7
<1> QED BY <1>1, <1>2, <1>3

\* A validity of n bits says what its bits say.
LEMMA ValidBits ==
  ASSUME NEW n \in Nat, NEW bits \in [1 .. n -> BOOLEAN]
  PROVE  /\ BitsFor(bits, n) /\ bits # NoValidity
         /\ \A i \in 1 .. n : Valid(bits, i) <=> bits[i]
<1>1. bits \in Seq(BOOLEAN) /\ Len(bits) = n
  BY LenProperties DEF Seq
<1>2. BitsFor(bits, n) /\ bits # NoValidity
  BY <1>1, ArrayDataAssumption DEF BitsFor
<1> QED BY <1>1, <1>2 DEF Valid
-----------------------------------------------------------------------------
(* Logic.                                                                   *)

Truth == BOOLEAN \cup {Null}

\* What a choice among one is.
LEMMA ChosenIs ==
  ASSUME NEW x
  PROVE  (CHOOSE y \in {x} : TRUE) = x
OBVIOUS

\* Two values that are not null decide, whatever the logic.
LEMMA DecidedValues ==
  ASSUME NEW a \in BOOLEAN, NEW b \in BOOLEAN, NEW kleene \in BOOLEAN
  PROVE  Decided("and", kleene, a, b) = (a /\ b) /\ Decided("or", kleene, a, b) = (a \/ b)
<1>1. a # Null /\ b # Null
  BY MarksAssumption
<1>2. Possible("and", a, b) = {a /\ b} /\ Possible("or", a, b) = {a \/ b}
  BY <1>1 DEF Possible
<1>3. Possible("and", a, b) # BOOLEAN /\ Possible("or", a, b) # BOOLEAN
  BY <1>2
<1>4. ~(Null \in {a, b})
  BY <1>1
<1> QED BY <1>2, <1>3, <1>4, ChosenIs DEF Decided

\* What a value may be, a null being either.
Open(x) == IF x = Null THEN BOOLEAN ELSE {x}

\* What two values allow is what an operator makes of what they may be.
LEMMA Allowed ==
  ASSUME NEW a, NEW b, NEW x \in Open(a), NEW y \in Open(b), NEW z
  PROVE  /\ z = (x /\ y) => z \in Possible("and", a, b)
         /\ z = (x \/ y) => z \in Possible("or", a, b)
BY DEF Possible, Open

LEMMA AllowedOnly ==
  ASSUME NEW a, NEW b, NEW z
  PROVE  /\ z \in Possible("and", a, b) => \E x \in Open(a), y \in Open(b) : z = (x /\ y)
         /\ z \in Possible("or", a, b) => \E x \in Open(a), y \in Open(b) : z = (x \/ y)
BY DEF Possible, Open

\* A value that is open is either, one that is not is itself.
LEMMA OpenIs ==
  ASSUME NEW a \in Truth
  PROVE  /\ Open(a) \subseteq BOOLEAN
         /\ TRUE \in Open(a) <=> a # FALSE
         /\ FALSE \in Open(a) <=> a # TRUE
<1>1. Null # TRUE /\ Null # FALSE
  BY MarksAssumption
<1>2. a = Null \/ a = TRUE \/ a = FALSE
  BY DEF Truth
<1> QED BY <1>1, <1>2, Zenon DEF Open

LEMMA PossibleIs ==
  ASSUME NEW a \in Truth, NEW b \in Truth
  PROVE  /\ Possible("and", a, b) \subseteq BOOLEAN /\ Possible("or", a, b) \subseteq BOOLEAN
         /\ TRUE \in Possible("and", a, b) <=> a # FALSE /\ b # FALSE
         /\ FALSE \in Possible("and", a, b) <=> a # TRUE \/ b # TRUE
         /\ TRUE \in Possible("or", a, b) <=> a # FALSE \/ b # FALSE
         /\ FALSE \in Possible("or", a, b) <=> a # TRUE /\ b # TRUE
<1>1. /\ Open(a) \subseteq BOOLEAN /\ (TRUE \in Open(a) <=> a # FALSE) /\ (FALSE \in Open(a) <=> a # TRUE)
      /\ Open(b) \subseteq BOOLEAN /\ (TRUE \in Open(b) <=> b # FALSE) /\ (FALSE \in Open(b) <=> b # TRUE)
  BY OpenIs
<1>2. /\ a = Null \/ a = TRUE \/ a = FALSE
      /\ b = Null \/ b = TRUE \/ b = FALSE
  BY DEF Truth
<1>3. PICK x0 \in Open(a), y0 \in Open(b) : TRUE
  BY <1>1, <1>2
<1>4. /\ \A z \in Possible("and", a, b) : \E x \in Open(a), y \in Open(b) : z = (x /\ y)
      /\ \A z \in Possible("or", a, b) : \E x \in Open(a), y \in Open(b) : z = (x \/ y)
  <2>1. ASSUME NEW z \in Possible("and", a, b) PROVE \E x \in Open(a), y \in Open(b) : z = (x /\ y)
    BY AllowedOnly
  <2>2. ASSUME NEW z \in Possible("or", a, b) PROVE \E x \in Open(a), y \in Open(b) : z = (x \/ y)
    BY AllowedOnly
  <2> QED BY <2>1, <2>2
<1>5. /\ Possible("and", a, b) \subseteq BOOLEAN /\ Possible("or", a, b) \subseteq BOOLEAN
      /\ TRUE \in Possible("and", a, b) => a # FALSE /\ b # FALSE
      /\ FALSE \in Possible("and", a, b) => a # TRUE \/ b # TRUE
      /\ TRUE \in Possible("or", a, b) => a # FALSE \/ b # FALSE
      /\ FALSE \in Possible("or", a, b) => a # TRUE /\ b # TRUE
  <2>1. Possible("and", a, b) \subseteq BOOLEAN /\ Possible("or", a, b) \subseteq BOOLEAN
    BY <1>4
  <2>2. TRUE \in Possible("and", a, b) => TRUE \in Open(a) /\ TRUE \in Open(b)
    BY <1>1, <1>4, Zenon
  <2>3. FALSE \in Possible("and", a, b) => FALSE \in Open(a) \/ FALSE \in Open(b)
    BY <1>1, <1>4, Zenon
  <2>4. TRUE \in Possible("or", a, b) => TRUE \in Open(a) \/ TRUE \in Open(b)
    BY <1>1, <1>4, Zenon
  <2>5. FALSE \in Possible("or", a, b) => FALSE \in Open(a) /\ FALSE \in Open(b)
    BY <1>1, <1>4, Zenon
  <2> QED BY <1>1, <2>1, <2>2, <2>3, <2>4, <2>5
<1>6. a # FALSE /\ b # FALSE => TRUE \in Possible("and", a, b)
  BY <1>1, Allowed, Zenon
<1>7. a # TRUE \/ b # TRUE => FALSE \in Possible("and", a, b)
  BY <1>1, <1>2, <1>3, Allowed, Zenon
<1>8. a # FALSE \/ b # FALSE => TRUE \in Possible("or", a, b)
  BY <1>1, <1>2, <1>3, Allowed, Zenon
<1>9. a # TRUE /\ b # TRUE => FALSE \in Possible("or", a, b)
  BY <1>1, Allowed, Zenon
<1> QED BY <1>5, <1>6, <1>7, <1>8, <1>9

\* Kleene's logic is what the operands leave possible.
LEMMA DecidedKleene ==
  ASSUME NEW op, NEW a, NEW b
  PROVE  /\ Possible(op, a, b) = BOOLEAN => Decided(op, TRUE, a, b) = Null
         /\ Possible(op, a, b) # BOOLEAN => Decided(op, TRUE, a, b) = CHOOSE x \in Possible(op, a, b) : TRUE
BY DEF Decided

\* A null leaves a value open, unless the other operand decides in Kleene's logic.
LEMMA DecidedNulls ==
  ASSUME NEW a \in Truth, NEW b \in Truth, a = Null \/ b = Null
  PROVE  /\ \A op : Decided(op, FALSE, a, b) = Null
         /\ (a = FALSE \/ b = FALSE) => Decided("and", TRUE, a, b) = FALSE
         /\ ~(a = FALSE \/ b = FALSE) => Decided("and", TRUE, a, b) = Null
         /\ (a = TRUE \/ b = TRUE) => Decided("or", TRUE, a, b) = TRUE
         /\ ~(a = TRUE \/ b = TRUE) => Decided("or", TRUE, a, b) = Null
<1>1. \A op : Decided(op, FALSE, a, b) = Null
  BY DEF Decided
<1>2. Null # TRUE /\ Null # FALSE
  BY MarksAssumption
<1> DEFINE P == Possible("and", a, b)
           Q == Possible("or", a, b)
<1>3. /\ P \subseteq BOOLEAN /\ Q \subseteq BOOLEAN
      /\ (TRUE \in P <=> a # FALSE /\ b # FALSE) /\ (FALSE \in P <=> a # TRUE \/ b # TRUE)
      /\ (TRUE \in Q <=> a # FALSE \/ b # FALSE) /\ (FALSE \in Q <=> a # TRUE /\ b # TRUE)
  BY PossibleIs
<1>4. /\ Decided("and", TRUE, a, b) = IF P = BOOLEAN THEN Null ELSE CHOOSE x \in P : TRUE
      /\ Decided("or", TRUE, a, b) = IF Q = BOOLEAN THEN Null ELSE CHOOSE x \in Q : TRUE
  BY DecidedKleene, Zenon
<1> HIDE DEF P, Q
<1>5. ASSUME a = FALSE \/ b = FALSE PROVE P = {FALSE}
  BY <1>2, <1>3, <1>5, Zenon
<1>6. ASSUME ~(a = FALSE \/ b = FALSE) PROVE P = BOOLEAN
  BY <1>2, <1>3, <1>6, Zenon
<1>7. ASSUME a = TRUE \/ b = TRUE PROVE Q = {TRUE}
  BY <1>2, <1>3, <1>7, Zenon
<1>8. ASSUME ~(a = TRUE \/ b = TRUE) PROVE Q = BOOLEAN
  BY <1>2, <1>3, <1>8, Zenon
<1>9. {TRUE} # BOOLEAN /\ {FALSE} # BOOLEAN
  OBVIOUS
<1>10. (CHOOSE x \in {TRUE} : TRUE) = TRUE /\ (CHOOSE x \in {FALSE} : TRUE) = FALSE
  BY Zenon
<1> QED BY <1>1, <1>4, <1>5, <1>6, <1>7, <1>8, <1>9, <1>10, Zenon

\* A value that is there, or a null.
Row(value, valid) == IF valid THEN value ELSE Null

\* Which values Kleene's logic knows.
KnownAnd(a, b, va, vb) == (~b /\ vb) \/ (~a /\ va) \/ ((a /\ va) /\ (b /\ vb))
KnownOr(a, b, va, vb) == (a /\ va) \/ (b /\ vb) \/ ((~a /\ va) /\ (~b /\ vb))

\* What is decided of two rows, by the values and what of them is valid.
Decisions(a, b, va, vb) ==
  /\ va /\ vb => /\ (a /\ b) = Decided("and", FALSE, Row(a, va), Row(b, vb))
                 /\ (a \/ b) = Decided("or", FALSE, Row(a, va), Row(b, vb))
  /\ ~(va /\ vb) => \A op : Decided(op, FALSE, Row(a, va), Row(b, vb)) = Null
  /\ KnownAnd(a, b, va, vb) => (a /\ b) = Decided("and", TRUE, Row(a, va), Row(b, vb))
  /\ ~KnownAnd(a, b, va, vb) => Decided("and", TRUE, Row(a, va), Row(b, vb)) = Null
  /\ KnownOr(a, b, va, vb) => (a \/ b) = Decided("or", TRUE, Row(a, va), Row(b, vb))
  /\ ~KnownOr(a, b, va, vb) => Decided("or", TRUE, Row(a, va), Row(b, vb)) = Null

LEMMA RowsDecide ==
  ASSUME NEW a \in BOOLEAN, NEW b \in BOOLEAN, NEW va \in BOOLEAN, NEW vb \in BOOLEAN
  PROVE  Decisions(a, b, va, vb)
<1>1. Null # TRUE /\ Null # FALSE
  BY MarksAssumption
<1>2. CASE va /\ vb
  <2>1. Row(a, va) = a /\ Row(b, vb) = b
    BY <1>2 DEF Row
  <2>2. \A kleene \in BOOLEAN :
          Decided("and", kleene, a, b) = (a /\ b) /\ Decided("or", kleene, a, b) = (a \/ b)
    BY DecidedValues
  <2> QED BY <1>2, <2>1, <2>2, Zenon DEF Decisions, KnownAnd, KnownOr
<1>3. CASE ~(va /\ vb)
  <2> DEFINE p == Row(a, va)
             q == Row(b, vb)
  <2>1. p \in Truth /\ q \in Truth /\ (p = Null \/ q = Null)
    BY <1>3, Zenon DEF Row, Truth
  <2>2. /\ (p = FALSE <=> va /\ ~a) /\ (p = TRUE <=> va /\ a)
        /\ (q = FALSE <=> vb /\ ~b) /\ (q = TRUE <=> vb /\ b)
    BY <1>1, Zenon DEF Row
  <2> HIDE DEF p, q
  <2>3. /\ \A op : Decided(op, FALSE, p, q) = Null
        /\ (p = FALSE \/ q = FALSE) => Decided("and", TRUE, p, q) = FALSE
        /\ ~(p = FALSE \/ q = FALSE) => Decided("and", TRUE, p, q) = Null
        /\ (p = TRUE \/ q = TRUE) => Decided("or", TRUE, p, q) = TRUE
        /\ ~(p = TRUE \/ q = TRUE) => Decided("or", TRUE, p, q) = Null
    BY <2>1, DecidedNulls
  <2>4. /\ (p = FALSE \/ q = FALSE) => (a /\ b) = FALSE
        /\ (p = TRUE \/ q = TRUE) => (a \/ b) = TRUE
    BY <2>2, Zenon
  <2> QED BY <1>3, <2>2, <2>3, <2>4, Zenon DEF p, q, Decisions, KnownAnd, KnownOr
<1> QED BY <1>2, <1>3

\* The rows of an array of booleans.
LEMMA TruthRows ==
  ASSUME NEW leaf \in LeafArrays("boolean", BOOLEAN)
  PROVE  LET n == Len(leaf.values)
         IN  /\ n \in Nat /\ leaf.values \in [1 .. n -> BOOLEAN] /\ DOMAIN leaf.values = 1 .. n /\ LeafLength(leaf) = n
             /\ BitsFor(leaf.validity, n) /\ leaf = BooleanOf(leaf.values, leaf.validity)
             /\ LeafItems(leaf) = Items(leaf.values, leaf.validity, n) /\ DOMAIN LeafItems(leaf) = 1 .. n
             /\ \A i \in 1 .. n : /\ LeafItems(leaf)[i] = Row(leaf.values[i], Valid(leaf.validity, i))
                                  /\ Valid(leaf.validity, i) \in BOOLEAN /\ leaf.values[i] \in BOOLEAN
<1> DEFINE n == Len(leaf.values)
<1>1. LeafOf(leaf, "boolean", BOOLEAN, n)
  BY LeafIs
<1>2. /\ leaf = [kind |-> "boolean", values |-> leaf.values, offsets |-> << >>, validity |-> leaf.validity]
      /\ leaf.values \in Seq(BOOLEAN) /\ n \in Nat /\ DOMAIN leaf.values = 1 .. n
      /\ BitsFor(leaf.validity, n) /\ LeafLength(leaf) = n
      /\ LeafItems(leaf) = [i \in 1 .. n |-> IF Valid(leaf.validity, i) THEN leaf.values[i] ELSE Null]
  BY <1>1, Zenon DEF LeafOf
<1>3. leaf = BooleanOf(leaf.values, leaf.validity)
  BY <1>2 DEF BooleanOf, PrimitiveOf
<1>4. leaf.values \in [1 .. n -> BOOLEAN]
  BY <1>2, LenProperties
<1> HIDE DEF n
<1>5. \A i \in 1 .. n : leaf.values[i] \in BOOLEAN
  BY <1>4
<1>6. \A i \in 1 .. n : Valid(leaf.validity, i) \in BOOLEAN
  <2> SUFFICES ASSUME NEW i \in 1 .. n PROVE Valid(leaf.validity, i) \in BOOLEAN
    OBVIOUS
  <2>1. CASE leaf.validity = NoValidity
    BY <2>1, Zenon DEF Valid
  <2>2. CASE leaf.validity # NoValidity
    <3>1. leaf.validity \in [1 .. n -> BOOLEAN]
      BY <1>2, <2>2, LenProperties DEF BitsFor
    <3>2. leaf.validity[i] \in BOOLEAN
      BY <3>1
    <3> QED BY <2>2, <3>2, Zenon DEF Valid
  <2> QED BY <2>1, <2>2
<1>7. \A i \in 1 .. n : LeafItems(leaf)[i] = Row(leaf.values[i], Valid(leaf.validity, i))
  BY <1>2, Zenon DEF Row
<1>8. LeafItems(leaf) = Items(leaf.values, leaf.validity, n) /\ DOMAIN LeafItems(leaf) = 1 .. n
  BY <1>2 DEF Items
<1> QED BY <1>2, <1>3, <1>4, <1>5, <1>6, <1>7, <1>8, Zenon DEF n

\* An array made of n truth values and a validity.
MadeOf(result_, n, values, bits) ==
  result_ = BooleanOf(values, bits) /\ values \in [1 .. n -> BOOLEAN] /\ BitsFor(bits, n)

\* Its rows are what its values and its validity say of each.
RowsAre(n, values, bits, f) ==
  f = [i \in 1 .. n |-> f[i]] /\ \A i \in 1 .. n : (Valid(bits, i) => values[i] = f[i]) /\ (~Valid(bits, i) => f[i] = Null)

LEMMA RowByRow ==
  ASSUME NEW n \in Nat, NEW made, NEW values, NEW bits, MadeOf(made, n, values, bits),
         NEW f, RowsAre(n, values, bits, f)
  PROVE  made # Panic /\ LeafItems(made) = f
<1>1. made # Panic /\ LeafItems(made) = Items(values, bits, n)
  BY BooleanIs, Zenon DEF MadeOf
<1>2. ASSUME NEW i \in 1 .. n PROVE (IF Valid(bits, i) THEN values[i] ELSE Null) = f[i]
  BY Zenon DEF RowsAre
<1>3. Items(values, bits, n) = [i \in 1 .. n |-> f[i]]
  BY <1>2, Zenon DEF Items
<1> QED BY <1>1, <1>3 DEF RowsAre

\* What and, or of boolean.rs make of two arrays that are as long.
LEMMA LogicMade ==
  ASSUME NEW l \in LeafArrays("boolean", BOOLEAN), NEW r \in LeafArrays("boolean", BOOLEAN),
         NEW n, n = Len(l.values), n = Len(r.values)
  PROVE  /\ MadeOf(And(l, r), n, [i \in 1 .. n |-> l.values[i] /\ r.values[i]], CombineValidities(l.validity, r.validity))
         /\ MadeOf(Or(l, r), n, [i \in 1 .. n |-> l.values[i] \/ r.values[i]], CombineValidities(l.validity, r.validity))
<1>1. /\ n \in Nat /\ l.values \in [1 .. n -> BOOLEAN] /\ DOMAIN l.values = 1 .. n /\ LeafLength(l) = n
      /\ BitsFor(l.validity, n)
  BY TruthRows
<1>2. r.values \in [1 .. n -> BOOLEAN] /\ LeafLength(r) = n /\ BitsFor(r.validity, n)
  BY TruthRows
<1>3. SameLength(l, r)
  BY <1>1, <1>2 DEF SameLength
<1> DEFINE bits == CombineValidities(l.validity, r.validity)
<1>4. BitsFor(bits, n)
  BY <1>1, <1>2, CombinedBits
<1> HIDE DEF bits
<1>5. And(l, r) = BooleanOf([i \in 1 .. n |-> l.values[i] /\ r.values[i]], bits)
  BY <1>1, <1>3, Zenon DEF And, BinaryBooleanKernel, BitsOf, bits
<1>6. Or(l, r) = BooleanOf([i \in 1 .. n |-> l.values[i] \/ r.values[i]], bits)
  BY <1>1, <1>3, Zenon DEF Or, BinaryBooleanKernel, BitsOf, bits
<1> QED BY <1>4, <1>5, <1>6 DEF MadeOf, bits

Known(op, l, r, i) ==
  IF op = "and" THEN KnownAnd(l.values[i], r.values[i], Valid(l.validity, i), Valid(r.validity, i))
  ELSE KnownOr(l.values[i], r.values[i], Valid(l.validity, i), Valid(r.validity, i))

\* The validity that Kleene's logic makes: none, or what is known.
KleeneBits(op, l, r, n) ==
  IF l.validity = NoValidity /\ r.validity = NoValidity THEN NoValidity ELSE [i \in 1 .. n |-> Known(op, l, r, i)]

LEMMA KleeneBitsAre ==
  ASSUME NEW l \in LeafArrays("boolean", BOOLEAN), NEW r \in LeafArrays("boolean", BOOLEAN),
         NEW n, n = Len(l.values), n = Len(r.values), NEW op
  PROVE  /\ BitsFor(KleeneBits(op, l, r, n), n)
         /\ \A i \in 1 .. n : Valid(KleeneBits(op, l, r, n), i) <=> Known(op, l, r, i)
<1>1. n \in Nat /\ \A i \in 1 .. n : Valid(l.validity, i) \in BOOLEAN /\ l.values[i] \in BOOLEAN
  BY TruthRows
<1>2. \A i \in 1 .. n : Valid(r.validity, i) \in BOOLEAN /\ r.values[i] \in BOOLEAN
  BY TruthRows
<1>3. CASE l.validity = NoValidity /\ r.validity = NoValidity
  <2>1. KleeneBits(op, l, r, n) = NoValidity
    BY <1>3 DEF KleeneBits
  <2>2. \A i \in 1 .. n : Valid(l.validity, i) /\ Valid(r.validity, i)
    BY <1>3, Zenon DEF Valid
  <2>3. \A i \in 1 .. n : Known(op, l, r, i)
    BY <2>2, Zenon DEF Known, KnownAnd, KnownOr
  <2> QED BY <2>1, <2>3, Zenon DEF BitsFor, Valid
<1>4. CASE ~(l.validity = NoValidity /\ r.validity = NoValidity)
  <2> DEFINE bits == [i \in 1 .. n |-> Known(op, l, r, i)]
  <2>1. KleeneBits(op, l, r, n) = bits
    BY <1>4 DEF KleeneBits
  <2>2. \A i \in 1 .. n : Known(op, l, r, i) \in BOOLEAN
    BY <1>1, <1>2, Zenon DEF Known, KnownAnd, KnownOr
  <2>3. bits \in [1 .. n -> BOOLEAN] /\ \A i \in 1 .. n : bits[i] = Known(op, l, r, i)
    BY <2>2
  <2> HIDE DEF bits
  <2>4. BitsFor(bits, n) /\ \A i \in 1 .. n : Valid(bits, i) <=> bits[i]
    BY <1>1, <2>3, ValidBits
  <2> QED BY <2>1, <2>3, <2>4, Zenon
<1> QED BY <1>3, <1>4

\* What and, or of boolean_kleene.rs make of two arrays that are as long.
LEMMA KleeneMade ==
  ASSUME NEW l \in LeafArrays("boolean", BOOLEAN), NEW r \in LeafArrays("boolean", BOOLEAN),
         NEW n, n = Len(l.values), n = Len(r.values)
  PROVE  /\ MadeOf(KleeneAnd(l, r), n, [i \in 1 .. n |-> l.values[i] /\ r.values[i]], KleeneBits("and", l, r, n))
         /\ MadeOf(KleeneOr(l, r), n, [i \in 1 .. n |-> l.values[i] \/ r.values[i]], KleeneBits("or", l, r, n))
<1>1. n \in Nat /\ l.values \in [1 .. n -> BOOLEAN] /\ DOMAIN l.values = 1 .. n /\ LeafLength(l) = n
  BY TruthRows
<1>2. r.values \in [1 .. n -> BOOLEAN] /\ LeafLength(r) = n
  BY TruthRows
<1>3. SameLength(l, r)
  BY <1>1, <1>2 DEF SameLength
<1>4. \A op : BitsFor(KleeneBits(op, l, r, n), n)
  BY KleeneBitsAre
<1>5. "and" # "or"
  OBVIOUS
<1>6. KleeneAnd(l, r) = BooleanOf([i \in 1 .. n |-> l.values[i] /\ r.values[i]], KleeneBits("and", l, r, n))
  BY <1>1, <1>3, Zenon DEF KleeneAnd, BitsOf, KleeneBits, Known, KnownAnd
<1>7. KleeneOr(l, r) = BooleanOf([i \in 1 .. n |-> l.values[i] \/ r.values[i]], KleeneBits("or", l, r, n))
  BY <1>1, <1>3, <1>5, Zenon DEF KleeneOr, BitsOf, KleeneBits, Known, KnownOr
<1>8. /\ [i \in 1 .. n |-> l.values[i] /\ r.values[i]] \in [1 .. n -> BOOLEAN]
      /\ [i \in 1 .. n |-> l.values[i] \/ r.values[i]] \in [1 .. n -> BOOLEAN]
  BY <1>1, <1>2
<1> QED BY <1>4, <1>6, <1>7, <1>8 DEF MadeOf

\* Two arrays that are as long are combined row by row.
LEMMA ArraysDecide ==
  ASSUME NEW c, c.left \in LeafArrays("boolean", BOOLEAN), c.right \in LeafArrays("boolean", BOOLEAN),
         c.op \in {"and", "or"}, c.kleene \in BOOLEAN, NEW n, n = Len(c.left.values), n = Len(c.right.values)
  PROVE  /\ LogicResult(c) # Panic
         /\ LeafItems(LogicResult(c)) =
              [i \in 1 .. n |-> Decided(c.op, c.kleene, LeafItems(c.left)[i], LeafItems(c.right)[i])]
<1> DEFINE l == c.left
           r == c.right
           f == [i \in 1 .. n |-> Decided(c.op, c.kleene, LeafItems(l)[i], LeafItems(r)[i])]
           va(i) == Valid(l.validity, i)
           vb(i) == Valid(r.validity, i)
<1>1. /\ n \in Nat /\ BitsFor(l.validity, n)
      /\ \A i \in 1 .. n : /\ LeafItems(l)[i] = Row(l.values[i], va(i))
                           /\ va(i) \in BOOLEAN /\ l.values[i] \in BOOLEAN
  BY TruthRows
<1>2. /\ BitsFor(r.validity, n)
      /\ \A i \in 1 .. n : /\ LeafItems(r)[i] = Row(r.values[i], vb(i))
                           /\ vb(i) \in BOOLEAN /\ r.values[i] \in BOOLEAN
  BY TruthRows
<1>3. \A i \in 1 .. n : f[i] = Decided(c.op, c.kleene, Row(l.values[i], va(i)), Row(r.values[i], vb(i)))
  BY <1>1, <1>2
<1>4. f = [i \in 1 .. n |-> f[i]] /\ \A i \in 1 .. n : Decisions(l.values[i], r.values[i], va(i), vb(i))
  <2>1. f = [i \in 1 .. n |-> f[i]]
    OBVIOUS
  <2>2. ASSUME NEW i \in 1 .. n PROVE Decisions(l.values[i], r.values[i], va(i), vb(i))
    <3>1. l.values[i] \in BOOLEAN /\ r.values[i] \in BOOLEAN /\ va(i) \in BOOLEAN /\ vb(i) \in BOOLEAN
      BY <1>1, <1>2
    <3> HIDE DEF l, r, va, vb
    <3> QED BY <3>1, RowsDecide
  <2> QED BY <2>1, <2>2
<1> DEFINE both == CombineValidities(l.validity, r.validity)
           ands == [i \in 1 .. n |-> l.values[i] /\ r.values[i]]
           ors == [i \in 1 .. n |-> l.values[i] \/ r.values[i]]
<1>5. \A i \in 1 .. n : Valid(both, i) <=> va(i) /\ vb(i)
  BY <1>1, <1>2, CombinedBits
<1>6. \A i \in 1 .. n, op \in {"and", "or"} : Valid(KleeneBits(op, l, r, n), i) <=> Known(op, l, r, i)
  BY KleeneBitsAre
<1>7. \A i \in 1 .. n : ands[i] = (l.values[i] /\ r.values[i]) /\ ors[i] = (l.values[i] \/ r.values[i])
  BY Zenon
<1>8. /\ MadeOf(And(l, r), n, ands, both) /\ MadeOf(Or(l, r), n, ors, both)
      /\ MadeOf(KleeneAnd(l, r), n, ands, KleeneBits("and", l, r, n))
      /\ MadeOf(KleeneOr(l, r), n, ors, KleeneBits("or", l, r, n))
  BY LogicMade, KleeneMade
<1>9. LogicResult(c) =
        IF c.op = "and" THEN (IF c.kleene THEN KleeneAnd(l, r) ELSE And(l, r))
        ELSE (IF c.kleene THEN KleeneOr(l, r) ELSE Or(l, r))
  BY DEF LogicResult
<1> HIDE DEF l, r, f, both, ands, ors
<1>10. CASE c.op = "and" /\ ~c.kleene
  <2>1. c.kleene = FALSE
    BY <1>10
  <2>2. RowsAre(n, ands, both, f)
    <3>1. ASSUME NEW i \in 1 .. n
          PROVE  (Valid(both, i) => ands[i] = f[i]) /\ (~Valid(both, i) => f[i] = Null)
      <4>1. f[i] = Decided("and", FALSE, Row(l.values[i], va(i)), Row(r.values[i], vb(i)))
        BY <1>3, <1>10, <2>1
      <4>2. Decisions(l.values[i], r.values[i], va(i), vb(i))
        BY <1>4
      <4>3. Valid(both, i) <=> va(i) /\ vb(i)
        BY <1>5
      <4>4. ands[i] = (l.values[i] /\ r.values[i])
        BY <1>7
      <4> QED BY <2>1, <4>1, <4>2, <4>3, <4>4, Zenon DEF Decisions
    <3> QED BY <1>4, <3>1 DEF RowsAre
  <2>3. And(l, r) # Panic /\ LeafItems(And(l, r)) = f
    BY <1>1, <1>8, <2>2, RowByRow
  <2> QED BY <1>9, <1>10, <2>3 DEF f, l, r
<1>11. CASE c.op = "or" /\ ~c.kleene
  <2>1. c.kleene = FALSE /\ "or" # "and"
    BY <1>11
  <2>2. RowsAre(n, ors, both, f)
    <3>1. ASSUME NEW i \in 1 .. n
          PROVE  (Valid(both, i) => ors[i] = f[i]) /\ (~Valid(both, i) => f[i] = Null)
      <4>1. f[i] = Decided("or", FALSE, Row(l.values[i], va(i)), Row(r.values[i], vb(i)))
        BY <1>3, <1>11, <2>1
      <4>2. Decisions(l.values[i], r.values[i], va(i), vb(i))
        BY <1>4
      <4>3. Valid(both, i) <=> va(i) /\ vb(i)
        BY <1>5
      <4>4. ors[i] = (l.values[i] \/ r.values[i])
        BY <1>7
      <4> QED BY <2>1, <4>1, <4>2, <4>3, <4>4, Zenon DEF Decisions
    <3> QED BY <1>4, <3>1 DEF RowsAre
  <2>3. Or(l, r) # Panic /\ LeafItems(Or(l, r)) = f
    BY <1>1, <1>8, <2>2, RowByRow
  <2> QED BY <1>9, <1>11, <2>1, <2>3 DEF f, l, r
<1>12. CASE c.op = "and" /\ c.kleene
  <2>1. c.kleene = TRUE /\ "or" # "and"
    BY <1>12
  <2>2. RowsAre(n, ands, KleeneBits("and", l, r, n), f)
    <3>1. ASSUME NEW i \in 1 .. n
          PROVE  (Valid(KleeneBits("and", l, r, n), i) => ands[i] = f[i]) /\ (~Valid(KleeneBits("and", l, r, n), i) => f[i] = Null)
      <4>1. f[i] = Decided("and", TRUE, Row(l.values[i], va(i)), Row(r.values[i], vb(i)))
        BY <1>3, <1>12, <2>1
      <4>2. Decisions(l.values[i], r.values[i], va(i), vb(i))
        BY <1>4
      <4>3. Valid(KleeneBits("and", l, r, n), i) <=> Known("and", l, r, i)
        BY <1>6
      <4>4. ands[i] = (l.values[i] /\ r.values[i])
        BY <1>7
      <4> QED BY <2>1, <4>1, <4>2, <4>3, <4>4, Zenon DEF Decisions, Known
    <3> QED BY <1>4, <3>1 DEF RowsAre
  <2>3. KleeneAnd(l, r) # Panic /\ LeafItems(KleeneAnd(l, r)) = f
    BY <1>1, <1>8, <2>2, RowByRow
  <2> QED BY <1>9, <1>12, <2>3 DEF f, l, r
<1>13. CASE c.op = "or" /\ c.kleene
  <2>1. c.kleene = TRUE /\ "or" # "and"
    BY <1>13
  <2>2. RowsAre(n, ors, KleeneBits("or", l, r, n), f)
    <3>1. ASSUME NEW i \in 1 .. n
          PROVE  (Valid(KleeneBits("or", l, r, n), i) => ors[i] = f[i]) /\ (~Valid(KleeneBits("or", l, r, n), i) => f[i] = Null)
      <4>1. f[i] = Decided("or", TRUE, Row(l.values[i], va(i)), Row(r.values[i], vb(i)))
        BY <1>3, <1>13, <2>1
      <4>2. Decisions(l.values[i], r.values[i], va(i), vb(i))
        BY <1>4
      <4>3. Valid(KleeneBits("or", l, r, n), i) <=> Known("or", l, r, i)
        BY <1>6
      <4>4. ors[i] = (l.values[i] \/ r.values[i])
        BY <1>7
      <4> QED BY <2>1, <4>1, <4>2, <4>3, <4>4, Zenon DEF Decisions, Known
    <3> QED BY <1>4, <3>1 DEF RowsAre
  <2>3. KleeneOr(l, r) # Panic /\ LeafItems(KleeneOr(l, r)) = f
    BY <1>1, <1>8, <2>2, RowByRow
  <2> QED BY <1>9, <1>13, <2>1, <2>3 DEF f, l, r
<1> QED BY <1>10, <1>11, <1>12, <1>13

\* Values and a validity that hold, row by row, what is decided of an array and one value.
DecidedBy(l, s, op, kleene, values, bits, n) ==
  \A i \in 1 .. n : LET row == Decided(op, kleene, Row(l.values[i], Valid(l.validity, i)), s)
                    IN  (Valid(bits, i) => values[i] = row) /\ (~Valid(bits, i) => row = Null)

\* The rows of an array combined with one value, or with a null.
LEMMA ScalarRows ==
  ASSUME NEW l \in LeafArrays("boolean", BOOLEAN), NEW n, n = Len(l.values), NEW s, NEW op, NEW kleene,
         NEW made, NEW values, NEW bits, MadeOf(made, n, values, bits),
         NEW f, f = [i \in 1 .. n |-> Decided(op, kleene, LeafItems(l)[i], s)],
         DecidedBy(l, s, op, kleene, values, bits, n)
  PROVE  made # Panic /\ LeafItems(made) = f
<1>1. n \in Nat /\ \A i \in 1 .. n : LeafItems(l)[i] = Row(l.values[i], Valid(l.validity, i))
  BY TruthRows
<1>2. \A i \in 1 .. n : f[i] = Decided(op, kleene, Row(l.values[i], Valid(l.validity, i)), s)
  BY <1>1
<1>3. f = [i \in 1 .. n |-> f[i]]
  BY <1>2
<1>4. RowsAre(n, values, bits, f)
  BY <1>2, <1>3, Zenon DEF RowsAre, DecidedBy
<1> QED BY <1>1, <1>4, RowByRow

\* Bits that are all unset, or all set, are as many as the array has rows.
LEMMA AllAlike ==
  ASSUME NEW l \in LeafArrays("boolean", BOOLEAN), NEW n, n = Len(l.values)
  PROVE  /\ Zeros(l) \in [1 .. n -> BOOLEAN] /\ Ones(l) \in [1 .. n -> BOOLEAN]
         /\ \A i \in 1 .. n : ~Zeros(l)[i] /\ Zeros(l)[i] = FALSE /\ Ones(l)[i] /\ Ones(l)[i] = TRUE
<1>1. Zeros(l) = [i \in 1 .. n |-> FALSE] /\ Ones(l) = [i \in 1 .. n |-> TRUE]
  BY TruthRows DEF Zeros, Ones, Repeat
<1> QED BY <1>1

\* An array is combined with one value, or with a null, row by row.
LEMMA ScalarDecides ==
  ASSUME NEW c, c.left \in LeafArrays("boolean", BOOLEAN), c.right \in Truth,
         c.op \in {"and", "or"}, c.kleene \in BOOLEAN, NEW n, n = Len(c.left.values)
  PROVE  /\ LogicScalarResult(c) # Panic
         /\ LeafItems(LogicScalarResult(c)) =
              [i \in 1 .. n |-> Decided(c.op, c.kleene, LeafItems(c.left)[i], c.right)]
<1> DEFINE l == c.left
           s == c.right
           f == [i \in 1 .. n |-> Decided(c.op, c.kleene, LeafItems(l)[i], s)]
           va(i) == Valid(l.validity, i)
<1>0. l \in LeafArrays("boolean", BOOLEAN) /\ n = Len(l.values)
  OBVIOUS
<1>1. /\ n \in Nat /\ l.values \in [1 .. n -> BOOLEAN] /\ DOMAIN l.values = 1 .. n
      /\ BitsFor(l.validity, n) /\ l = BooleanOf(l.values, l.validity)
      /\ \A i \in 1 .. n : va(i) \in BOOLEAN /\ l.values[i] \in BOOLEAN
  BY TruthRows
<1>2. /\ Zeros(l) \in [1 .. n -> BOOLEAN] /\ Ones(l) \in [1 .. n -> BOOLEAN]
      /\ \A i \in 1 .. n : ~Zeros(l)[i] /\ Zeros(l)[i] = FALSE /\ Ones(l)[i] /\ Ones(l)[i] = TRUE
  BY <1>0, AllAlike, Zenon
<1>3. BitsFor(Zeros(l), n) /\ \A i \in 1 .. n : ~Valid(Zeros(l), i)
  BY <1>1, <1>2, ValidBits
<1>4. BitsFor(NoValidity, n) /\ \A i \in 1 .. n : Valid(NoValidity, i)
  BY DEF BitsFor, Valid
<1>5. Null # TRUE /\ Null # FALSE /\ "and" # "or"
  BY MarksAssumption
<1> DEFINE known == [i \in 1 .. n |-> va(i) /\ ~l.values[i]]
           certain == [i \in 1 .. n |-> va(i) /\ l.values[i]]
<1>6. /\ BitsFor(known, n) /\ \A i \in 1 .. n : Valid(known, i) <=> va(i) /\ ~l.values[i]
      /\ BitsFor(certain, n) /\ \A i \in 1 .. n : Valid(certain, i) <=> va(i) /\ l.values[i]
  <2>1. /\ known \in [1 .. n -> BOOLEAN] /\ \A i \in 1 .. n : known[i] <=> va(i) /\ ~l.values[i]
        /\ certain \in [1 .. n -> BOOLEAN] /\ \A i \in 1 .. n : certain[i] <=> va(i) /\ l.values[i]
    BY <1>1
  <2> HIDE DEF known, certain, l
  <2>2. /\ BitsFor(known, n) /\ \A i \in 1 .. n : Valid(known, i) <=> known[i]
        /\ BitsFor(certain, n) /\ \A i \in 1 .. n : Valid(certain, i) <=> certain[i]
    BY <1>1, <2>1, ValidBits
  <2> QED BY <2>1, <2>2, Zenon
<1>7. \A i \in 1 .. n, b \in BOOLEAN, vb \in BOOLEAN : Decisions(l.values[i], b, va(i), vb)
  <2> SUFFICES ASSUME NEW i \in 1 .. n, NEW b \in BOOLEAN, NEW vb \in BOOLEAN
               PROVE  Decisions(l.values[i], b, va(i), vb)
    OBVIOUS
  <2>1. l.values[i] \in BOOLEAN /\ va(i) \in BOOLEAN
    BY <1>1
  <2> HIDE DEF l, va
  <2> QED BY <2>1, RowsDecide
<1>8. Row(TRUE, TRUE) = TRUE /\ Row(FALSE, TRUE) = FALSE /\ Row(TRUE, FALSE) = Null
  BY DEF Row
<1>9. /\ AndScalar(l, s) = IF s = TRUE THEN l ELSE IF s = FALSE THEN BooleanOf(Zeros(l), l.validity) ELSE NewNulls(l)
      /\ OrScalar(l, s) = IF s = TRUE THEN BooleanOf(Ones(l), l.validity) ELSE IF s = FALSE THEN l ELSE NewNulls(l)
      /\ KleeneAndScalar(l, s) = IF s = TRUE THEN l ELSE IF s = FALSE THEN BooleanOf(Zeros(l), NoValidity)
                                 ELSE BooleanOf(l.values, known)
      /\ KleeneOrScalar(l, s) = IF s = TRUE THEN BooleanOf(Ones(l), NoValidity) ELSE IF s = FALSE THEN l
                                ELSE BooleanOf(l.values, certain)
  <2>1. s = TRUE \/ s = FALSE \/ s = Null
    BY DEF Truth
  <2> QED BY <1>1, <1>5, <2>1, Zenon DEF AndScalar, OrScalar, KleeneAndScalar, KleeneOrScalar
<1>10. LogicScalarResult(c) =
         IF c.op = "and" THEN (IF c.kleene THEN KleeneAndScalar(l, s) ELSE AndScalar(l, s))
         ELSE (IF c.kleene THEN KleeneOrScalar(l, s) ELSE OrScalar(l, s))
  BY <1>5 DEF LogicScalarResult
<1>11. NewNulls(l) = BooleanOf(Zeros(l), Zeros(l))
  BY DEF NewNulls
<1> HIDE DEF l, s, f, va, known, certain
<1>12. CASE c.op = "and" /\ c.kleene = FALSE /\ s = TRUE
  <2>1. MadeOf(AndScalar(l, s), n, l.values, l.validity)
    BY <1>1, <1>2, <1>3, <1>4, <1>5, <1>6, <1>9, <1>11, <1>12, Zenon DEF MadeOf
  <2>2. ASSUME NEW i \in 1 .. n
        PROVE  LET row == Decided(c.op, c.kleene, Row(l.values[i], Valid(l.validity, i)), s)
               IN  (Valid(l.validity, i) => l.values[i] = row) /\ (~Valid(l.validity, i) => row = Null)
    <3>1. Decisions(l.values[i], TRUE, va(i), TRUE)
      BY <1>7, Zenon
    <3> QED BY <1>1, <1>2, <1>3, <1>4, <1>6, <1>8, <1>12, <3>1, Zenon DEF Decisions, KnownAnd, KnownOr, va
  <2>3. DecidedBy(l, s, c.op, c.kleene, l.values, l.validity, n)
    BY <2>2, Zenon DEF DecidedBy
  <2>4. AndScalar(l, s) # Panic /\ LeafItems(AndScalar(l, s)) = f
    BY <1>0, <2>1, <2>3, ScalarRows DEF f
  <2> QED BY <1>5, <1>10, <1>12, <2>4 DEF f, l, s
<1>13. CASE c.op = "and" /\ c.kleene = FALSE /\ s = FALSE
  <2>1. MadeOf(AndScalar(l, s), n, Zeros(l), l.validity)
    BY <1>1, <1>2, <1>3, <1>4, <1>5, <1>6, <1>9, <1>11, <1>13, Zenon DEF MadeOf
  <2>2. ASSUME NEW i \in 1 .. n
        PROVE  LET row == Decided(c.op, c.kleene, Row(l.values[i], Valid(l.validity, i)), s)
               IN  (Valid(l.validity, i) => Zeros(l)[i] = row) /\ (~Valid(l.validity, i) => row = Null)
    <3>1. Decisions(l.values[i], FALSE, va(i), TRUE)
      BY <1>7, Zenon
    <3> QED BY <1>1, <1>2, <1>3, <1>4, <1>6, <1>8, <1>13, <3>1, Zenon DEF Decisions, KnownAnd, KnownOr, va
  <2>3. DecidedBy(l, s, c.op, c.kleene, Zeros(l), l.validity, n)
    BY <2>2, Zenon DEF DecidedBy
  <2>4. AndScalar(l, s) # Panic /\ LeafItems(AndScalar(l, s)) = f
    BY <1>0, <2>1, <2>3, ScalarRows DEF f
  <2> QED BY <1>5, <1>10, <1>13, <2>4 DEF f, l, s
<1>14. CASE c.op = "and" /\ c.kleene = FALSE /\ s = Null
  <2>1. MadeOf(AndScalar(l, s), n, Zeros(l), Zeros(l))
    BY <1>1, <1>2, <1>3, <1>4, <1>5, <1>6, <1>9, <1>11, <1>14, Zenon DEF MadeOf
  <2>2. ASSUME NEW i \in 1 .. n
        PROVE  LET row == Decided(c.op, c.kleene, Row(l.values[i], Valid(l.validity, i)), s)
               IN  (Valid(Zeros(l), i) => Zeros(l)[i] = row) /\ (~Valid(Zeros(l), i) => row = Null)
    <3>1. Decisions(l.values[i], TRUE, va(i), FALSE)
      BY <1>7, Zenon
    <3> QED BY <1>1, <1>2, <1>3, <1>4, <1>6, <1>8, <1>14, <3>1, Zenon DEF Decisions, KnownAnd, KnownOr, va
  <2>3. DecidedBy(l, s, c.op, c.kleene, Zeros(l), Zeros(l), n)
    BY <2>2, Zenon DEF DecidedBy
  <2>4. AndScalar(l, s) # Panic /\ LeafItems(AndScalar(l, s)) = f
    BY <1>0, <2>1, <2>3, ScalarRows DEF f
  <2> QED BY <1>5, <1>10, <1>14, <2>4 DEF f, l, s
<1>15. CASE c.op = "or" /\ c.kleene = FALSE /\ s = TRUE
  <2>1. MadeOf(OrScalar(l, s), n, Ones(l), l.validity)
    BY <1>1, <1>2, <1>3, <1>4, <1>5, <1>6, <1>9, <1>11, <1>15, Zenon DEF MadeOf
  <2>2. ASSUME NEW i \in 1 .. n
        PROVE  LET row == Decided(c.op, c.kleene, Row(l.values[i], Valid(l.validity, i)), s)
               IN  (Valid(l.validity, i) => Ones(l)[i] = row) /\ (~Valid(l.validity, i) => row = Null)
    <3>1. Decisions(l.values[i], TRUE, va(i), TRUE)
      BY <1>7, Zenon
    <3> QED BY <1>1, <1>2, <1>3, <1>4, <1>6, <1>8, <1>15, <3>1, Zenon DEF Decisions, KnownAnd, KnownOr, va
  <2>3. DecidedBy(l, s, c.op, c.kleene, Ones(l), l.validity, n)
    BY <2>2, Zenon DEF DecidedBy
  <2>4. OrScalar(l, s) # Panic /\ LeafItems(OrScalar(l, s)) = f
    BY <1>0, <2>1, <2>3, ScalarRows DEF f
  <2> QED BY <1>5, <1>10, <1>15, <2>4 DEF f, l, s
<1>16. CASE c.op = "or" /\ c.kleene = FALSE /\ s = FALSE
  <2>1. MadeOf(OrScalar(l, s), n, l.values, l.validity)
    BY <1>1, <1>2, <1>3, <1>4, <1>5, <1>6, <1>9, <1>11, <1>16, Zenon DEF MadeOf
  <2>2. ASSUME NEW i \in 1 .. n
        PROVE  LET row == Decided(c.op, c.kleene, Row(l.values[i], Valid(l.validity, i)), s)
               IN  (Valid(l.validity, i) => l.values[i] = row) /\ (~Valid(l.validity, i) => row = Null)
    <3>1. Decisions(l.values[i], FALSE, va(i), TRUE)
      BY <1>7, Zenon
    <3> QED BY <1>1, <1>2, <1>3, <1>4, <1>6, <1>8, <1>16, <3>1, Zenon DEF Decisions, KnownAnd, KnownOr, va
  <2>3. DecidedBy(l, s, c.op, c.kleene, l.values, l.validity, n)
    BY <2>2, Zenon DEF DecidedBy
  <2>4. OrScalar(l, s) # Panic /\ LeafItems(OrScalar(l, s)) = f
    BY <1>0, <2>1, <2>3, ScalarRows DEF f
  <2> QED BY <1>5, <1>10, <1>16, <2>4 DEF f, l, s
<1>17. CASE c.op = "or" /\ c.kleene = FALSE /\ s = Null
  <2>1. MadeOf(OrScalar(l, s), n, Zeros(l), Zeros(l))
    BY <1>1, <1>2, <1>3, <1>4, <1>5, <1>6, <1>9, <1>11, <1>17, Zenon DEF MadeOf
  <2>2. ASSUME NEW i \in 1 .. n
        PROVE  LET row == Decided(c.op, c.kleene, Row(l.values[i], Valid(l.validity, i)), s)
               IN  (Valid(Zeros(l), i) => Zeros(l)[i] = row) /\ (~Valid(Zeros(l), i) => row = Null)
    <3>1. Decisions(l.values[i], TRUE, va(i), FALSE)
      BY <1>7, Zenon
    <3> QED BY <1>1, <1>2, <1>3, <1>4, <1>6, <1>8, <1>17, <3>1, Zenon DEF Decisions, KnownAnd, KnownOr, va
  <2>3. DecidedBy(l, s, c.op, c.kleene, Zeros(l), Zeros(l), n)
    BY <2>2, Zenon DEF DecidedBy
  <2>4. OrScalar(l, s) # Panic /\ LeafItems(OrScalar(l, s)) = f
    BY <1>0, <2>1, <2>3, ScalarRows DEF f
  <2> QED BY <1>5, <1>10, <1>17, <2>4 DEF f, l, s
<1>18. CASE c.op = "and" /\ c.kleene = TRUE /\ s = TRUE
  <2>1. MadeOf(KleeneAndScalar(l, s), n, l.values, l.validity)
    BY <1>1, <1>2, <1>3, <1>4, <1>5, <1>6, <1>9, <1>11, <1>18, Zenon DEF MadeOf
  <2>2. ASSUME NEW i \in 1 .. n
        PROVE  LET row == Decided(c.op, c.kleene, Row(l.values[i], Valid(l.validity, i)), s)
               IN  (Valid(l.validity, i) => l.values[i] = row) /\ (~Valid(l.validity, i) => row = Null)
    <3>1. Decisions(l.values[i], TRUE, va(i), TRUE)
      BY <1>7, Zenon
    <3> QED BY <1>1, <1>2, <1>3, <1>4, <1>6, <1>8, <1>18, <3>1, Zenon DEF Decisions, KnownAnd, KnownOr, va
  <2>3. DecidedBy(l, s, c.op, c.kleene, l.values, l.validity, n)
    BY <2>2, Zenon DEF DecidedBy
  <2>4. KleeneAndScalar(l, s) # Panic /\ LeafItems(KleeneAndScalar(l, s)) = f
    BY <1>0, <2>1, <2>3, ScalarRows DEF f
  <2> QED BY <1>5, <1>10, <1>18, <2>4 DEF f, l, s
<1>19. CASE c.op = "and" /\ c.kleene = TRUE /\ s = FALSE
  <2>1. MadeOf(KleeneAndScalar(l, s), n, Zeros(l), NoValidity)
    BY <1>1, <1>2, <1>3, <1>4, <1>5, <1>6, <1>9, <1>11, <1>19, Zenon DEF MadeOf
  <2>2. ASSUME NEW i \in 1 .. n
        PROVE  LET row == Decided(c.op, c.kleene, Row(l.values[i], Valid(l.validity, i)), s)
               IN  (Valid(NoValidity, i) => Zeros(l)[i] = row) /\ (~Valid(NoValidity, i) => row = Null)
    <3>1. Decisions(l.values[i], FALSE, va(i), TRUE)
      BY <1>7, Zenon
    <3> QED BY <1>1, <1>2, <1>3, <1>4, <1>6, <1>8, <1>19, <3>1, Zenon DEF Decisions, KnownAnd, KnownOr, va
  <2>3. DecidedBy(l, s, c.op, c.kleene, Zeros(l), NoValidity, n)
    BY <2>2, Zenon DEF DecidedBy
  <2>4. KleeneAndScalar(l, s) # Panic /\ LeafItems(KleeneAndScalar(l, s)) = f
    BY <1>0, <2>1, <2>3, ScalarRows DEF f
  <2> QED BY <1>5, <1>10, <1>19, <2>4 DEF f, l, s
<1>20. CASE c.op = "and" /\ c.kleene = TRUE /\ s = Null
  <2>1. MadeOf(KleeneAndScalar(l, s), n, l.values, known)
    BY <1>1, <1>2, <1>3, <1>4, <1>5, <1>6, <1>9, <1>11, <1>20, Zenon DEF MadeOf
  <2>2. ASSUME NEW i \in 1 .. n
        PROVE  LET row == Decided(c.op, c.kleene, Row(l.values[i], Valid(l.validity, i)), s)
               IN  (Valid(known, i) => l.values[i] = row) /\ (~Valid(known, i) => row = Null)
    <3>1. Decisions(l.values[i], TRUE, va(i), FALSE)
      BY <1>7, Zenon
    <3> QED BY <1>1, <1>2, <1>3, <1>4, <1>6, <1>8, <1>20, <3>1, Zenon DEF Decisions, KnownAnd, KnownOr, va
  <2>3. DecidedBy(l, s, c.op, c.kleene, l.values, known, n)
    BY <2>2, Zenon DEF DecidedBy
  <2>4. KleeneAndScalar(l, s) # Panic /\ LeafItems(KleeneAndScalar(l, s)) = f
    BY <1>0, <2>1, <2>3, ScalarRows DEF f
  <2> QED BY <1>5, <1>10, <1>20, <2>4 DEF f, l, s
<1>21. CASE c.op = "or" /\ c.kleene = TRUE /\ s = TRUE
  <2>1. MadeOf(KleeneOrScalar(l, s), n, Ones(l), NoValidity)
    BY <1>1, <1>2, <1>3, <1>4, <1>5, <1>6, <1>9, <1>11, <1>21, Zenon DEF MadeOf
  <2>2. ASSUME NEW i \in 1 .. n
        PROVE  LET row == Decided(c.op, c.kleene, Row(l.values[i], Valid(l.validity, i)), s)
               IN  (Valid(NoValidity, i) => Ones(l)[i] = row) /\ (~Valid(NoValidity, i) => row = Null)
    <3>1. Decisions(l.values[i], TRUE, va(i), TRUE)
      BY <1>7, Zenon
    <3> QED BY <1>1, <1>2, <1>3, <1>4, <1>6, <1>8, <1>21, <3>1, Zenon DEF Decisions, KnownAnd, KnownOr, va
  <2>3. DecidedBy(l, s, c.op, c.kleene, Ones(l), NoValidity, n)
    BY <2>2, Zenon DEF DecidedBy
  <2>4. KleeneOrScalar(l, s) # Panic /\ LeafItems(KleeneOrScalar(l, s)) = f
    BY <1>0, <2>1, <2>3, ScalarRows DEF f
  <2> QED BY <1>5, <1>10, <1>21, <2>4 DEF f, l, s
<1>22. CASE c.op = "or" /\ c.kleene = TRUE /\ s = FALSE
  <2>1. MadeOf(KleeneOrScalar(l, s), n, l.values, l.validity)
    BY <1>1, <1>2, <1>3, <1>4, <1>5, <1>6, <1>9, <1>11, <1>22, Zenon DEF MadeOf
  <2>2. ASSUME NEW i \in 1 .. n
        PROVE  LET row == Decided(c.op, c.kleene, Row(l.values[i], Valid(l.validity, i)), s)
               IN  (Valid(l.validity, i) => l.values[i] = row) /\ (~Valid(l.validity, i) => row = Null)
    <3>1. Decisions(l.values[i], FALSE, va(i), TRUE)
      BY <1>7, Zenon
    <3> QED BY <1>1, <1>2, <1>3, <1>4, <1>6, <1>8, <1>22, <3>1, Zenon DEF Decisions, KnownAnd, KnownOr, va
  <2>3. DecidedBy(l, s, c.op, c.kleene, l.values, l.validity, n)
    BY <2>2, Zenon DEF DecidedBy
  <2>4. KleeneOrScalar(l, s) # Panic /\ LeafItems(KleeneOrScalar(l, s)) = f
    BY <1>0, <2>1, <2>3, ScalarRows DEF f
  <2> QED BY <1>5, <1>10, <1>22, <2>4 DEF f, l, s
<1>23. CASE c.op = "or" /\ c.kleene = TRUE /\ s = Null
  <2>1. MadeOf(KleeneOrScalar(l, s), n, l.values, certain)
    BY <1>1, <1>2, <1>3, <1>4, <1>5, <1>6, <1>9, <1>11, <1>23, Zenon DEF MadeOf
  <2>2. ASSUME NEW i \in 1 .. n
        PROVE  LET row == Decided(c.op, c.kleene, Row(l.values[i], Valid(l.validity, i)), s)
               IN  (Valid(certain, i) => l.values[i] = row) /\ (~Valid(certain, i) => row = Null)
    <3>1. Decisions(l.values[i], TRUE, va(i), FALSE)
      BY <1>7, Zenon
    <3> QED BY <1>1, <1>2, <1>3, <1>4, <1>6, <1>8, <1>23, <3>1, Zenon DEF Decisions, KnownAnd, KnownOr, va
  <2>3. DecidedBy(l, s, c.op, c.kleene, l.values, certain, n)
    BY <2>2, Zenon DEF DecidedBy
  <2>4. KleeneOrScalar(l, s) # Panic /\ LeafItems(KleeneOrScalar(l, s)) = f
    BY <1>0, <2>1, <2>3, ScalarRows DEF f
  <2> QED BY <1>5, <1>10, <1>23, <2>4 DEF f, l, s
<1>24. c.right = TRUE \/ c.right = FALSE \/ c.right = Null
  BY DEF Truth
<1> QED BY <1>12, <1>13, <1>14, <1>15, <1>16, <1>17, <1>18, <1>19, <1>20, <1>21, <1>22, <1>23, <1>24 DEF s

\* Arrays that differ in length are not combined.
LEMMA UnequalPanics ==
  ASSUME NEW c, c.op \in {"and", "or"}, c.kleene \in BOOLEAN, ~SameLength(c.left, c.right)
  PROVE  LogicResult(c) = Panic
<1>1. /\ And(c.left, c.right) = Panic /\ Or(c.left, c.right) = Panic
  BY Zenon DEF And, Or, BinaryBooleanKernel
<1>2. KleeneAnd(c.left, c.right) = Panic /\ KleeneOr(c.left, c.right) = Panic
  BY Zenon DEF KleeneAnd, KleeneOr
<1> QED BY <1>1, <1>2 DEF LogicResult

\* What a kernel of one array says of each row.
UnaryRow(op, x) == CASE op = "is_null" -> x = Null
                     [] op = "is_not_null" -> x # Null
                     [] OTHER -> IF x = Null THEN Null ELSE ~x

\* A row is null where the validity says so: no value is.
LEMMA NullRows ==
  ASSUME NEW a \in BOOLEAN, NEW va \in BOOLEAN
  PROVE  /\ Row(a, va) = Null <=> ~va
         /\ va => Row(a, va) = a
<1>1. Null # TRUE /\ Null # FALSE
  BY MarksAssumption
<1> QED BY <1>1, Zenon DEF Row

\* not, is_null and is_not_null go row by row.
LEMMA UnaryDecides ==
  ASSUME NEW c, c.left \in LeafArrays("boolean", BOOLEAN), c.op \in {"not", "is_null", "is_not_null"},
         NEW n, n = Len(c.left.values)
  PROVE  LeafItems(LogicUnaryResult(c)) = [i \in 1 .. n |-> UnaryRow(c.op, LeafItems(c.left)[i])]
<1> DEFINE l == c.left
           f == [i \in 1 .. n |-> UnaryRow(c.op, LeafItems(l)[i])]
           va(i) == Valid(l.validity, i)
<1>0. l \in LeafArrays("boolean", BOOLEAN) /\ n = Len(l.values)
  OBVIOUS
<1>1. /\ n \in Nat /\ l.values \in [1 .. n -> BOOLEAN] /\ DOMAIN l.values = 1 .. n
      /\ BitsFor(l.validity, n)
      /\ \A i \in 1 .. n : va(i) \in BOOLEAN /\ l.values[i] \in BOOLEAN
      /\ \A i \in 1 .. n : LeafItems(l)[i] = Row(l.values[i], va(i))
  BY TruthRows
<1>2. /\ Zeros(l) \in [1 .. n -> BOOLEAN] /\ Ones(l) \in [1 .. n -> BOOLEAN]
      /\ \A i \in 1 .. n : ~Zeros(l)[i] /\ Zeros(l)[i] = FALSE /\ Ones(l)[i] /\ Ones(l)[i] = TRUE
  BY AllAlike
<1>3. \A i \in 1 .. n : (LeafItems(l)[i] = Null <=> ~va(i)) /\ (va(i) => LeafItems(l)[i] = l.values[i])
  <2> SUFFICES ASSUME NEW i \in 1 .. n
               PROVE  (LeafItems(l)[i] = Null <=> ~va(i)) /\ (va(i) => LeafItems(l)[i] = l.values[i])
    OBVIOUS
  <2>1. l.values[i] \in BOOLEAN /\ va(i) \in BOOLEAN /\ LeafItems(l)[i] = Row(l.values[i], va(i))
    BY <1>1
  <2> HIDE DEF l, va
  <2> QED BY <2>1, NullRows
<1>4. f = [i \in 1 .. n |-> f[i]] /\ \A i \in 1 .. n : f[i] = UnaryRow(c.op, LeafItems(l)[i])
  OBVIOUS
<1>5. BitsFor(NoValidity, n) /\ \A i \in 1 .. n : Valid(NoValidity, i)
  BY DEF BitsFor, Valid
<1> HIDE DEF f, l, va
<1>6. CASE c.op = "not"
  <2> DEFINE flipped == [i \in 1 .. n |-> ~l.values[i]]
  <2>1. LogicUnaryResult(c) = BooleanOf(flipped, l.validity)
    BY <1>1, <1>6 DEF LogicUnaryResult, Not, l
  <2>2. flipped \in [1 .. n -> BOOLEAN] /\ \A i \in 1 .. n : flipped[i] = ~l.values[i]
    BY <1>1
  <2> HIDE DEF flipped
  <2>3. MadeOf(LogicUnaryResult(c), n, flipped, l.validity)
    BY <1>1, <2>1, <2>2, Zenon DEF MadeOf
  <2>4. "not" # "is_null" /\ "not" # "is_not_null"
    OBVIOUS
  <2>5. RowsAre(n, flipped, l.validity, f)
    BY <1>3, <1>4, <1>6, <2>2, <2>4, Zenon DEF RowsAre, UnaryRow, va
  <2>6. LeafItems(LogicUnaryResult(c)) = f
    BY <1>1, <2>3, <2>5, RowByRow
  <2> QED BY <2>6 DEF f, l
<1>7. ASSUME NEW bits, bits \in [1 .. n -> BOOLEAN], \A i \in 1 .. n : bits[i] = f[i],
             LogicUnaryResult(c) = BooleanOf(bits, NoValidity)
      PROVE  LeafItems(LogicUnaryResult(c)) = f
  <2>1. MadeOf(LogicUnaryResult(c), n, bits, NoValidity)
    BY <1>5, <1>7, Zenon DEF MadeOf
  <2>2. RowsAre(n, bits, NoValidity, f)
    BY <1>4, <1>5, <1>7, Zenon DEF RowsAre
  <2> QED BY <1>1, <2>1, <2>2, RowByRow
<1>8. l.validity # NoValidity => l.validity \in [1 .. n -> BOOLEAN] /\ DOMAIN l.validity = 1 .. n
  BY <1>1, LenProperties DEF BitsFor
<1>11. ASSUME l.validity # NoValidity PROVE \A i \in 1 .. n : va(i) <=> l.validity[i]
  <2>1. l.validity \in [1 .. n -> BOOLEAN]
    BY <1>8, <1>11
  <2> QED BY <1>1, <2>1, ValidBits DEF va
<1>9. CASE c.op = "is_null"
  <2>1. \A i \in 1 .. n : f[i] = (LeafItems(l)[i] = Null)
    BY <1>4, <1>9, Zenon DEF UnaryRow
  <2>2. \A i \in 1 .. n : f[i] = ~va(i)
    BY <1>3, <2>1, Zenon
  <2>3. CASE l.validity = NoValidity
    <3>1. LogicUnaryResult(c) = BooleanOf(Zeros(l), NoValidity)
      BY <1>9, <2>3 DEF LogicUnaryResult, IsNull, l
    <3>2. \A i \in 1 .. n : Zeros(l)[i] = f[i]
      BY <1>2, <2>2, <2>3, Zenon DEF Valid, va
    <3>3. LeafItems(LogicUnaryResult(c)) = f
      BY <1>2, <1>7, <3>1, <3>2
    <3> QED BY <3>3 DEF f, l
  <2>4. CASE l.validity # NoValidity
    <3> DEFINE flipped == [i \in 1 .. n |-> ~l.validity[i]]
    <3>1. LogicUnaryResult(c) = BooleanOf(flipped, NoValidity)
      BY <1>8, <1>9, <2>4 DEF LogicUnaryResult, IsNull, l
    <3>2. flipped \in [1 .. n -> BOOLEAN] /\ \A i \in 1 .. n : flipped[i] = ~l.validity[i]
      BY <1>8, <2>4
    <3> HIDE DEF flipped
    <3>3. \A i \in 1 .. n : flipped[i] = f[i]
      BY <1>11, <2>2, <2>4, <3>2, Zenon
    <3>4. LeafItems(LogicUnaryResult(c)) = f
      BY <1>7, <3>1, <3>2, <3>3
    <3> QED BY <3>4 DEF f, l
  <2> QED BY <2>3, <2>4
<1>10. CASE c.op = "is_not_null"
  <2>0. "is_null" # "is_not_null"
    OBVIOUS
  <2>1. \A i \in 1 .. n : f[i] = (LeafItems(l)[i] # Null)
    BY <1>4, <1>10, <2>0, Zenon DEF UnaryRow
  <2>2. \A i \in 1 .. n : f[i] = va(i)
    BY <1>1, <1>3, <2>1, Zenon
  <2>3. CASE l.validity = NoValidity
    <3>1. LogicUnaryResult(c) = BooleanOf(Ones(l), NoValidity)
      BY <1>10, <2>3 DEF LogicUnaryResult, IsNotNull, l
    <3>2. \A i \in 1 .. n : Ones(l)[i] = f[i]
      BY <1>2, <2>2, <2>3, Zenon DEF Valid, va
    <3>3. LeafItems(LogicUnaryResult(c)) = f
      BY <1>2, <1>7, <3>1, <3>2
    <3> QED BY <3>3 DEF f, l
  <2>4. CASE l.validity # NoValidity
    <3>1. LogicUnaryResult(c) = BooleanOf(l.validity, NoValidity)
      BY <1>10, <2>4 DEF LogicUnaryResult, IsNotNull, l
    <3>2. \A i \in 1 .. n : l.validity[i] = f[i]
      <4> SUFFICES ASSUME NEW i \in 1 .. n PROVE l.validity[i] = f[i]
        OBVIOUS
      <4>1. (va(i) <=> l.validity[i]) /\ f[i] = va(i)
        BY <1>11, <2>2, <2>4, Zenon
      <4>2. l.validity[i] \in BOOLEAN /\ va(i) \in BOOLEAN
        BY <1>1, <1>8, <2>4
      <4> QED BY <4>1, <4>2
    <3>3. LeafItems(LogicUnaryResult(c)) = f
      BY <1>7, <1>8, <2>4, <3>1, <3>2
    <3> QED BY <3>3 DEF f, l
  <2> QED BY <2>3, <2>4
<1> QED BY <1>6, <1>9, <1>10

\* any and all ask the rows, of which a null is no truth.
LEMMA WholeDecides ==
  ASSUME NEW l \in LeafArrays("boolean", BOOLEAN), NEW n, n = Len(l.values)
  PROVE  /\ AnyTrue(l) = \E i \in 1 .. n : LeafItems(l)[i] = TRUE
         /\ AllTrue(l) = (LeafItems(l) # << >> /\ \A i \in 1 .. n : LeafItems(l)[i] = TRUE)
<1>1. /\ n \in Nat /\ DOMAIN l.values = 1 .. n /\ LeafLength(l) = n /\ DOMAIN LeafItems(l) = 1 .. n
      /\ LeafItems(l) = Items(l.values, l.validity, n)
      /\ \A i \in 1 .. n : /\ LeafItems(l)[i] = Row(l.values[i], Valid(l.validity, i))
                           /\ Valid(l.validity, i) \in BOOLEAN /\ l.values[i] \in BOOLEAN
  BY TruthRows
<1>2. Null # TRUE /\ Null # FALSE
  BY MarksAssumption
<1>3. \A i \in 1 .. n : LeafItems(l)[i] = TRUE <=> Valid(l.validity, i) /\ l.values[i]
  BY <1>1, <1>2, Zenon DEF Row
<1>4. LeafItems(l) = << >> <=> n = 0
  <2>1. LeafItems(l) \in Seq(Truth) /\ Len(LeafItems(l)) = n
    <3>1. LeafItems(l) = [i \in 1 .. n |-> Row(l.values[i], Valid(l.validity, i))]
      BY <1>1 DEF Items, Row
    <3>2. \A i \in 1 .. n : Row(l.values[i], Valid(l.validity, i)) \in Truth
      BY <1>1, Zenon DEF Row, Truth
    <3>3. LeafItems(l) \in [1 .. n -> Truth]
      BY <3>1, <3>2
    <3> QED BY <1>1, <3>3, LenProperties DEF Seq
  <2> QED BY <2>1, EmptySeq
<1>5. l.values = << >> <=> n = 0
  <2>1. l.values \in Seq(BOOLEAN)
    BY LeafIs DEF LeafOf
  <2> QED BY <2>1, EmptySeq
<1>6. NullsOf(l) = {} <=> \A i \in 1 .. n : Valid(l.validity, i)
  BY <1>1 DEF NullsOf
<1>7. AnyTrue(l) = \E i \in 1 .. n : LeafItems(l)[i] = TRUE
  BY <1>1, <1>3, Zenon DEF AnyTrue
<1>8. AllTrue(l) = (LeafItems(l) # << >> /\ \A i \in 1 .. n : LeafItems(l)[i] = TRUE)
  BY <1>1, <1>3, <1>4, <1>5, <1>6, Zenon DEF AllTrue
<1> QED BY <1>7, <1>8

\* What LogicIsByRow says of a call and what it is answered, kernel by kernel.
LogicOfArrays(c, r) ==
  /\ r = Panic <=> ~SameLength(c.left, c.right)
  /\ r # Panic => LeafItems(r) = [i \in DOMAIN LeafItems(c.left) |->
                                   Decided(c.op, c.kleene, LeafItems(c.left)[i], LeafItems(c.right)[i])]

LogicOfScalar(c, r) ==
  r # Panic => LeafItems(r) = [i \in DOMAIN LeafItems(c.left) |-> Decided(c.op, c.kleene, LeafItems(c.left)[i], c.right)]

LogicOfOne(c, r) == LeafItems(r) = [i \in DOMAIN LeafItems(c.left) |-> UnaryRow(c.op, LeafItems(c.left)[i])]

LogicOfAll(c, r) ==
  r = IF c.op = "any" THEN \E i \in DOMAIN LeafItems(c.left) : LeafItems(c.left)[i] = TRUE
      ELSE LeafItems(c.left) # << >> /\ \A i \in DOMAIN LeafItems(c.left) : LeafItems(c.left)[i] = TRUE

LogicSays ==
  /\ Answered("logic") => LogicOfArrays(call, result)
  /\ Answered("logic_scalar") => LogicOfScalar(call, result)
  /\ Answered("logic_unary") => LogicOfOne(call, result)
  /\ Answered("logic_whole") => LogicOfAll(call, result)

LEMMA LogicParts == LogicIsByRow <=> LogicSays
<1>1. Answered("logic") => call.kernel = "logic"
  BY DEF Answered
<1>2. Answered("logic_scalar") => call.kernel # "logic"
  BY DEF Answered
<1> QED BY <1>1, <1>2, Zenon DEF LogicIsByRow, LogicSays, LogicOfArrays, LogicOfScalar, LogicOfOne, LogicOfAll, UnaryRow

\* Every kernel answers a call as LogicIsByRow says.
LEMMA LogicCallIs ==
  ASSUME NEW c \in LogicCalls
  PROVE  /\ c.left \in LeafArrays("boolean", BOOLEAN)
         /\ c.kernel = "logic" => c.op \in {"and", "or"} /\ c.kleene \in BOOLEAN /\ c.right \in LeafArrays("boolean", BOOLEAN)
         /\ c.kernel = "logic_scalar" => c.op \in {"and", "or"} /\ c.kleene \in BOOLEAN /\ c.right \in Truth
         /\ c.kernel = "logic_unary" => c.op \in {"not", "is_null", "is_not_null"}
         /\ c.kernel = "logic_whole" => c.op \in {"any", "all"}
<1> DEFINE Booleans == LeafArrays("boolean", BOOLEAN)
<1> HIDE DEF Booleans
<1>1. \/ c \in [kernel : {"logic"}, op : {"and", "or"}, kleene : BOOLEAN, left : Booleans, right : Booleans]
      \/ c \in [kernel : {"logic_scalar"}, op : {"and", "or"}, kleene : BOOLEAN, left : Booleans, right : Truth]
      \/ c \in [kernel : {"logic_unary"}, op : {"not", "is_null", "is_not_null"}, left : Booleans]
      \/ c \in [kernel : {"logic_whole"}, op : {"any", "all"}, left : Booleans]
  BY DEF LogicCalls, Booleans, Truth
<1> QED BY <1>1 DEF Booleans

LEMMA LogicAnswers ==
  ASSUME NEW c \in LogicCalls
  PROVE  /\ c.kernel = "logic" => LogicOfArrays(c, LogicResult(c))
         /\ c.kernel = "logic_scalar" => LogicOfScalar(c, LogicScalarResult(c))
         /\ c.kernel = "logic_unary" => LogicOfOne(c, LogicUnaryResult(c))
         /\ c.kernel = "logic_whole" => LogicOfAll(c, IF c.op = "any" THEN AnyTrue(c.left) ELSE AllTrue(c.left))
<1> DEFINE l == c.left
           n == Len(l.values)
<1>1. l \in LeafArrays("boolean", BOOLEAN)
  BY LogicCallIs
<1>2. DOMAIN LeafItems(l) = 1 .. n /\ LeafLength(l) = n
  BY <1>1, TruthRows
<1>3. CASE c.kernel = "logic"
  <2>1. c.op \in {"and", "or"} /\ c.kleene \in BOOLEAN /\ c.right \in LeafArrays("boolean", BOOLEAN)
    BY <1>3, LogicCallIs
  <2>2. LeafLength(c.right) = Len(c.right.values)
    BY <2>1, TruthRows
  <2>3. CASE SameLength(c.left, c.right)
    <3>1. n = Len(c.right.values)
      BY <1>2, <2>2, <2>3 DEF SameLength
    <3>2. /\ LogicResult(c) # Panic
          /\ LeafItems(LogicResult(c)) =
               [i \in 1 .. n |-> Decided(c.op, c.kleene, LeafItems(c.left)[i], LeafItems(c.right)[i])]
      BY <1>1, <2>1, <3>1, ArraysDecide
    <3> QED BY <1>2, <1>3, <2>3, <3>2 DEF LogicOfArrays
  <2>4. CASE ~SameLength(c.left, c.right)
    <3>1. LogicResult(c) = Panic
      BY <2>1, <2>4, UnequalPanics
    <3> QED BY <1>3, <2>4, <3>1 DEF LogicOfArrays
  <2> QED BY <2>3, <2>4
<1>4. CASE c.kernel = "logic_scalar"
  <2>1. c.op \in {"and", "or"} /\ c.kleene \in BOOLEAN /\ c.right \in Truth
    BY <1>4, LogicCallIs
  <2>2. LeafItems(LogicScalarResult(c)) =
          [i \in 1 .. n |-> Decided(c.op, c.kleene, LeafItems(c.left)[i], c.right)]
    BY <1>1, <2>1, ScalarDecides
  <2> QED BY <1>2, <1>4, <2>2 DEF LogicOfScalar
<1>5. CASE c.kernel = "logic_unary"
  <2>1. c.op \in {"not", "is_null", "is_not_null"}
    BY <1>5, LogicCallIs
  <2>2. LeafItems(LogicUnaryResult(c)) = [i \in 1 .. n |-> UnaryRow(c.op, LeafItems(c.left)[i])]
    BY <1>1, <2>1, UnaryDecides
  <2> QED BY <1>2, <1>5, <2>2 DEF LogicOfOne
<1>6. CASE c.kernel = "logic_whole"
  <2>1. /\ AnyTrue(l) = \E i \in 1 .. n : LeafItems(l)[i] = TRUE
        /\ AllTrue(l) = (LeafItems(l) # << >> /\ \A i \in 1 .. n : LeafItems(l)[i] = TRUE)
    BY <1>1, WholeDecides
  <2>2. LogicOfAll(c, IF c.op = "any" THEN AnyTrue(c.left) ELSE AllTrue(c.left))
    BY <1>2, <2>1, Zenon DEF LogicOfAll
  <2> QED BY <1>6, <2>2
<1> QED BY <1>1, <1>3, <1>4, <1>5, <1>6

\* A kernel of booleans answers each row from its operands' rows alone: what is behind
\* a null, and whether an array keeps a validity that is all set, is never seen.
THEOREM LogicByRow == LogicSpec => []LogicIsByRow
<1> DEFINE Inv == call \in LogicCalls /\ LogicIsByRow
<1>1. KernelInit /\ call \in LogicCalls => Inv
  BY LogicParts, Zenon DEF LogicSays, KernelInit, Answered
<1>2. Inv /\ [LogicNext]_kvars => Inv'
  <2> SUFFICES ASSUME Inv, [LogicNext]_kvars PROVE Inv'
    OBVIOUS
  <2>1. /\ call.kernel = "logic" => LogicOfArrays(call, LogicResult(call))
        /\ call.kernel = "logic_scalar" => LogicOfScalar(call, LogicScalarResult(call))
        /\ call.kernel = "logic_unary" => LogicOfOne(call, LogicUnaryResult(call))
        /\ call.kernel = "logic_whole" => LogicOfAll(call, IF call.op = "any" THEN AnyTrue(call.left) ELSE AllTrue(call.left))
    BY LogicAnswers
  <2>2. LogicIsByRow' <=>
          /\ call'.kernel = "logic" /\ result' # NoResult => LogicOfArrays(call', result')
          /\ call'.kernel = "logic_scalar" /\ result' # NoResult => LogicOfScalar(call', result')
          /\ call'.kernel = "logic_unary" /\ result' # NoResult => LogicOfOne(call', result')
          /\ call'.kernel = "logic_whole" /\ result' # NoResult => LogicOfAll(call', result')
    <3>1. (LogicIsByRow <=> LogicSays)'
      BY LogicParts, PTL
    <3> QED BY <3>1, Zenon DEF LogicSays, Answered
  <2>3. CASE DecideArrays
    <3>1. call' = call /\ call.kernel = "logic" /\ result' = LogicResult(call)
      BY <2>3 DEF DecideArrays, Returns
    <3> QED BY <2>1, <2>2, <3>1
  <2>4. CASE DecideScalar
    <3>1. call' = call /\ call.kernel = "logic_scalar" /\ result' = LogicScalarResult(call)
      BY <2>4 DEF DecideScalar, Returns
    <3> QED BY <2>1, <2>2, <3>1
  <2>5. CASE DecideUnary
    <3>1. call' = call /\ call.kernel = "logic_unary" /\ result' = LogicUnaryResult(call)
      BY <2>5 DEF DecideUnary, Returns
    <3> QED BY <2>1, <2>2, <3>1
  <2>6. CASE DecideWhole
    <3>1. /\ call' = call /\ call.kernel = "logic_whole"
          /\ result' = IF call.op = "any" THEN AnyTrue(call.left) ELSE AllTrue(call.left)
      BY <2>6, Zenon DEF DecideWhole, Returns
    <3> HIDE DEF LogicIsByRow
    <3>2. LogicOfAll(call', result')
      BY <2>1, <3>1, Zenon
    <3> QED BY <2>2, <3>1, <3>2
  <2>7. CASE UNCHANGED kvars
    <3>1. call' = call /\ result' = result
      BY <2>7 DEF kvars
    <3>2. LogicIsByRow
      OBVIOUS
    <3> QED BY <2>2, <3>1, <3>2, LogicParts DEF LogicSays, Answered
  <2> QED BY <2>3, <2>4, <2>5, <2>6, <2>7 DEF LogicNext
<1> QED BY <1>1, <1>2, PTL DEF LogicSpec
-----------------------------------------------------------------------------
(* Arithmetic.                                                              *)

\* The quotient and the rest of two naturals.
LEMMA DivMod ==
  ASSUME NEW a \in Nat, NEW b \in Nat \ {0}
  PROVE  /\ a \div b \in Nat /\ a % b \in 0 .. b - 1
         /\ a = b * (a \div b) + (a % b)
OBVIOUS

\* A remainder lies between zero and the number that is divided.
LEMMA RestIsBetween ==
  ASSUME NEW a \in Ints, NEW b \in Ints, b # 0
  PROVE  Quotient(a, b) \in Int /\ Remainder(a, b) \in Ints
<1> DEFINE A == Abs(a)
           B == Abs(b)
           q == A \div B
<1>1. a \in Int /\ b \in Int /\ MinInt <= a /\ a <= MaxInt /\ MinInt \in Int /\ MaxInt \in Int /\ MinInt <= 0 /\ 0 <= MaxInt
  BY IntAssumption DEF Ints
<1>2. /\ A \in Nat /\ (a >= 0 => A = a) /\ (a < 0 => A = -a)
      /\ B \in Nat \ {0} /\ (b >= 0 => B = b) /\ (b < 0 => B = -b)
  BY <1>1 DEF Abs
<1> DEFINE rest == A % B
<1>3. q \in Nat /\ rest \in 0 .. B - 1 /\ A = B * q + rest
  BY <1>2, DivMod
<1>5. Quotient(a, b) = (IF (a < 0) = (b < 0) THEN q ELSE -q)
  BY DEF Quotient
<1> HIDE DEF A, B, q, rest
<1>4. B * q \in Nat /\ B * q <= A
  BY <1>2, <1>3
<1>6. CASE a >= 0
  <2>1. b * Quotient(a, b) = B * q
    BY <1>1, <1>2, <1>3, <1>5, <1>6
  <2>2. Remainder(a, b) = a - B * q
    BY <2>1 DEF Remainder
  <2>3. 0 <= Remainder(a, b) /\ Remainder(a, b) <= a /\ Remainder(a, b) \in Int
    BY <1>1, <1>2, <1>4, <1>6, <2>2
  <2> QED BY <1>1, <1>3, <1>5, <2>3 DEF Ints
<1>7. CASE a < 0
  <2>1. b * Quotient(a, b) = -(B * q)
    BY <1>1, <1>2, <1>3, <1>5, <1>7
  <2>2. Remainder(a, b) = a + B * q
    BY <1>1, <1>4, <2>1 DEF Remainder
  <2>3. a <= Remainder(a, b) /\ Remainder(a, b) <= 0 /\ Remainder(a, b) \in Int
    BY <1>1, <1>2, <1>4, <1>7, <2>2
  <2> QED BY <1>1, <1>3, <1>5, <2>3 DEF Ints
<1> QED BY <1>1, <1>6, <1>7

\* Integers of the type are numbers, and neither a null nor a panic.
LEMMA IntsAre ==
  /\ Ints \subseteq Int /\ 0 \in Ints /\ Null \notin Int /\ Panic \notin Int /\ Panic # Null
  /\ \A x \in Ints : Wrapped(x) = x /\ Saturated(x) = x
  /\ \A x \in Int : Wrapped(x) \in Int /\ Saturated(x) \in Int
<1>1. MinInt \in Int /\ MaxInt \in Nat /\ MinInt <= 0
  BY IntAssumption
<1>2. Ints \subseteq Int /\ 0 \in Ints
  BY <1>1 DEF Ints
<1>3. Null \notin Int /\ Panic \notin Int /\ Panic # Null
  BY MarksAssumption
<1>4. ASSUME NEW x \in Ints PROVE Wrapped(x) = x /\ Saturated(x) = x
  <2>1. x \in Int /\ MinInt <= x /\ x <= MaxInt
    BY <1>1 DEF Ints
  <2>2. x - MinInt \in 0 .. MaxInt - MinInt
    BY <1>1, <2>1
  <2>3. (x - MinInt) % (MaxInt - MinInt + 1) = x - MinInt
    BY <1>1, <2>1, <2>2
  <2> QED BY <1>1, <2>1, <2>3 DEF Wrapped, Saturated
<1>5. ASSUME NEW x \in Int PROVE Wrapped(x) \in Int /\ Saturated(x) \in Int
  <2>1. (x - MinInt) % (MaxInt - MinInt + 1) \in Int
    BY <1>1
  <2> QED BY <1>1, <2>1 DEF Wrapped, Saturated
<1> QED BY <1>2, <1>3, <1>4, <1>5

\* The exact result of one row, as Exact gives it.
ExactOf(op, a, b) ==
  CASE op = "add" -> a + b
    [] op = "sub" -> a - b
    [] op = "mul" -> a * b
    [] op = "neg" -> -a
    [] op = "pow" -> Power(a, b)
    [] op = "div" -> (IF b = 0 THEN Null ELSE Quotient(a, b))
    [] op = "rem" -> (IF b = 0 \/ Quotient(a, b) \notin Ints THEN Null ELSE Remainder(a, b))

\* What becomes of it, as Promised says.
PromiseOf(flavour, x) ==
  IF Fits(x) THEN x
  ELSE CASE flavour = "checked" -> Null
         [] flavour = "saturating" -> Saturated(x)
         [] OTHER -> Wrapped(x)

\* What a kernel computes of one row.
ValueOf(op, flavour, a, b, checks) ==
  IF op \in {"div", "rem"}
  THEN LET x == IF op = "div" THEN Divided(a, b) ELSE Rest(a, b)
       IN  IF flavour = "checked" THEN NullIfPanic(x) ELSE x
  ELSE CASE flavour = "plain" -> Native(ExactOf(op, a, b), checks)
         [] flavour = "wrapping" -> Wrapped(ExactOf(op, a, b))
         [] flavour = "saturating" -> Saturated(ExactOf(op, a, b))
         [] flavour = "checked" -> Checked(ExactOf(op, a, b))
         [] flavour = "overflowing" -> Wrapped(ExactOf(op, a, b))

Operations == {"add", "sub", "mul", "div", "rem", "neg", "pow"}

\* It is the promised one, or a panic for a reason.
RowKept(op, flavour, a, b, checks) ==
  LET x == ExactOf(op, a, b)
      v == ValueOf(op, flavour, a, b, checks)
  IN  /\ v \in Int \/ (v = Null /\ flavour = "checked") \/ (v = Panic /\ flavour = "plain" /\ ~Fits(x))
      /\ v # Panic => v = PromiseOf(flavour, x)
      /\ ~Fits(x) <=> Overflows(x)

\* What a kernel makes of an integer result.
LEMMA ResultIsKept ==
  ASSUME NEW op, op \in Operations \ {"div", "rem"}, NEW flavour \in Flavours, NEW a, NEW b, NEW checks \in BOOLEAN,
         ExactOf(op, a, b) \in Int \/ flavour = "checked"
  PROVE  RowKept(op, flavour, a, b, checks)
<1> DEFINE x == ExactOf(op, a, b)
           v == ValueOf(op, flavour, a, b, checks)
<1>1. /\ Ints \subseteq Int /\ Null \notin Int /\ Panic \notin Int /\ Panic # Null
      /\ \A y \in Ints : Wrapped(y) = y /\ Saturated(y) = y
      /\ \A y \in Int : Wrapped(y) \in Int /\ Saturated(y) \in Int
  BY IntsAre
<1>2. op \notin {"div", "rem"}
  OBVIOUS
<1>3. Fits(x) <=> x \in Ints
  BY <1>1 DEF Fits
<1> HIDE DEF x
<1>4. CASE flavour = "plain"
  <2>1. v = Native(x, checks)
    BY <1>2, <1>4, Zenon DEF ValueOf, x
  <2>2. x \in Int
    BY <1>4 DEF x
  <2> HIDE DEF v
  <2>3. x \in Ints => v = x
    BY <2>1 DEF Native
  <2>4. x \notin Ints => v = Panic \/ v = Wrapped(x)
    BY <2>1 DEF Native
  <2>5. v # Panic => v = PromiseOf(flavour, x)
    BY <1>1, <1>3, <1>4, <2>3, <2>4 DEF PromiseOf
  <2>6. v \in Int \/ (v = Panic /\ ~Fits(x))
    BY <1>1, <1>3, <2>2, <2>3, <2>4
  <2> QED BY <1>3, <1>4, <2>5, <2>6 DEF RowKept, Overflows, x, v
<1>5. CASE flavour = "wrapping" \/ flavour = "overflowing"
  <2>1. v = Wrapped(x)
    BY <1>2, <1>5 DEF ValueOf, x
  <2>2. x \in Int
    BY <1>5 DEF x
  <2> HIDE DEF v
  <2>3. v = PromiseOf(flavour, x)
    BY <1>1, <1>3, <1>5, <2>1 DEF PromiseOf
  <2> QED BY <1>1, <1>3, <2>1, <2>2, <2>3 DEF RowKept, Overflows, x, v
<1>6. CASE flavour = "saturating"
  <2>1. v = Saturated(x)
    BY <1>2, <1>6 DEF ValueOf, x
  <2>2. x \in Int
    BY <1>6 DEF x
  <2> HIDE DEF v
  <2>3. v = PromiseOf(flavour, x)
    BY <1>1, <1>3, <1>6, <2>1 DEF PromiseOf
  <2> QED BY <1>1, <1>3, <2>1, <2>2, <2>3 DEF RowKept, Overflows, x, v
<1>7. CASE flavour = "checked"
  <2>1. v = Checked(x)
    BY <1>2, <1>7 DEF ValueOf, x
  <2> HIDE DEF v
  <2>2. v = PromiseOf(flavour, x)
    BY <1>1, <1>3, <1>7, <2>1 DEF PromiseOf, Checked
  <2>3. v \in Int \/ v = Null
    BY <1>1, <2>1 DEF Checked
  <2> QED BY <1>1, <1>3, <1>7, <2>2, <2>3 DEF RowKept, Overflows, x, v
<1> QED BY <1>4, <1>5, <1>6, <1>7 DEF Flavours

\* What a kernel makes of a quotient or a remainder.
LEMMA DivisionIsKept ==
  ASSUME NEW op \in {"div", "rem"}, NEW flavour \in {"plain", "checked"}, NEW a \in Ints, NEW b \in Ints, NEW checks \in BOOLEAN
  PROVE  RowKept(op, flavour, a, b, checks)
<1> DEFINE x == ExactOf(op, a, b)
           v == ValueOf(op, flavour, a, b, checks)
           d == IF op = "div" THEN Divided(a, b) ELSE Rest(a, b)
<1>1. Ints \subseteq Int /\ Null \notin Int /\ Panic \notin Int /\ Panic # Null
  BY IntsAre
<1>2. Fits(x) <=> x \in Ints
  BY <1>1 DEF Fits
<1>3. v = IF flavour = "checked" THEN NullIfPanic(d) ELSE d
  BY DEF ValueOf
<1>4. CASE b = 0 \/ Quotient(a, b) \notin Ints
  <2>1. d = Panic
    BY <1>4 DEF Divided, Rest
  <2>2. x \notin Ints
    BY <1>1, <1>4 DEF ExactOf
  <2> HIDE DEF x, v, d
  <2>3. (flavour = "checked" => v = Null) /\ (flavour = "plain" => v = Panic)
    BY <1>3, <2>1 DEF NullIfPanic
  <2>4. v # Panic => v = PromiseOf(flavour, x)
    BY <1>2, <2>2, <2>3 DEF PromiseOf
  <2> QED BY <1>2, <2>2, <2>3, <2>4 DEF RowKept, Overflows, x, v
<1>5. CASE b # 0 /\ Quotient(a, b) \in Ints
  <2>1. Remainder(a, b) \in Ints
    BY <1>5, RestIsBetween
  <2>2. d = x /\ x \in Ints
    BY <1>5, <2>1 DEF ExactOf, Divided, Rest
  <2> HIDE DEF x, v, d
  <2>3. v = x /\ x # Panic /\ x \in Int
    BY <1>1, <1>3, <2>2 DEF NullIfPanic
  <2>4. v = PromiseOf(flavour, x)
    BY <1>2, <2>2, <2>3 DEF PromiseOf
  <2> QED BY <1>2, <2>2, <2>3, <2>4 DEF RowKept, Overflows, x, v
<1> QED BY <1>4, <1>5

\* Every kernel keeps every row it is called with.
LEMMA RowsAreKept ==
  ASSUME NEW op \in Operations, NEW flavour \in FlavoursOf(op), NEW checks \in BOOLEAN, NEW a \in Ints, NEW b,
         op = "pow" \/ b \in Ints
  PROVE  RowKept(op, flavour, a, b, checks)
<1>1. Ints \subseteq Int
  BY IntsAre
<1>2. CASE op \in {"add", "sub", "mul"}
  <2>1. flavour \in Flavours
    BY <1>2 DEF FlavoursOf
  <2>2. a \in Int /\ b \in Int
    BY <1>1, <1>2
  <2>3. ExactOf(op, a, b) \in Int
    BY <1>2, <2>2 DEF ExactOf
  <2> QED BY <1>2, <2>1, <2>3, ResultIsKept DEF Operations
<1>3. CASE op \in {"div", "rem"}
  <2>1. flavour \in {"plain", "checked"} /\ b \in Ints
    BY <1>3 DEF FlavoursOf
  <2> QED BY <1>3, <2>1, DivisionIsKept
<1>4. CASE op = "neg"
  <2>1. flavour \in Flavours
    BY <1>4 DEF FlavoursOf, Flavours
  <2>2. ExactOf(op, a, b) \in Int
    BY <1>1, <1>4 DEF ExactOf
  <2> QED BY <1>4, <2>1, <2>2, ResultIsKept DEF Operations
<1>5. CASE op = "pow"
  <2>1. flavour = "checked" /\ flavour \in Flavours
    BY <1>5 DEF FlavoursOf, Flavours
  <2> QED BY <1>5, <2>1, ResultIsKept DEF Operations
<1> QED BY <1>2, <1>3, <1>4, <1>5 DEF Operations

\* The rows that f gives where bits say that there is one.
RowsOf(f, bits, n) == [i \in 1 .. n |-> IF Valid(bits, i) THEN f[i] ELSE Null]

\* Values without a panic are collected.
LEMMA CollectedAnswers ==
  ASSUME NEW n \in Nat, NEW bits, BitsFor(bits, n), NEW f, f = [i \in 1 .. n |-> f[i]],
         \A i \in 1 .. n : f[i] \in Int \cup {Panic}
  PROVE  /\ Collected(f, bits) = Panic <=> \E i \in 1 .. n : f[i] = Panic
         /\ Collected(f, bits) # Panic =>
              /\ Collected(f, bits) \in LeafArrays("primitive", Int)
              /\ LeafItems(Collected(f, bits)) = RowsOf(f, bits, n)
<1>1. DOMAIN f = 1 .. n
  OBVIOUS
<1>2. CASE \E i \in 1 .. n : f[i] = Panic
  <2>1. Collected(f, bits) = Panic
    BY <1>1, <1>2 DEF Collected
  <2> QED BY <1>2, <2>1
<1>3. CASE ~\E i \in 1 .. n : f[i] = Panic
  <2>1. Collected(f, bits) = PrimitiveOf(f, bits)
    BY <1>1, <1>3, Zenon DEF Collected
  <2>2. f \in [1 .. n -> Int]
    BY <1>3
  <2>3. /\ PrimitiveOf(f, bits) \in LeafArrays("primitive", Int)
        /\ LeafItems(PrimitiveOf(f, bits)) = Items(f, bits, n)
    BY <2>2, NumbersAre
  <2>4. PrimitiveOf(f, bits) # Panic
    BY <2>3, MarksAssumption
  <2> QED BY <1>3, <2>1, <2>3, <2>4 DEF RowsOf, Items
<1> QED BY <1>2, <1>3

\* Rows without a value become nulls.
LEMMA MarkedAnswers ==
  ASSUME NEW n \in Nat, NEW bits, BitsFor(bits, n), NEW f, f = [i \in 1 .. n |-> f[i]],
         \A i \in 1 .. n : f[i] \in Int \cup {Null}
  PROVE  Marked(f, bits) # Panic /\ LeafItems(Marked(f, bits)) = RowsOf(f, bits, n)
<1> DEFINE values == [i \in 1 .. n |-> IF f[i] = Null THEN 0 ELSE f[i]]
           marks == [i \in 1 .. n |-> f[i] # Null]
           both == CombineValidities(bits, marks)
<1>1. DOMAIN f = 1 .. n
  OBVIOUS
<1>2. Marked(f, bits) = PrimitiveOf(values, both)
  BY <1>1 DEF Marked
<1>3. values \in [1 .. n -> Int] /\ \A i \in 1 .. n : f[i] # Null => values[i] = f[i]
  BY IntsAre
<1>4. marks \in [1 .. n -> BOOLEAN] /\ \A i \in 1 .. n : marks[i] <=> f[i] # Null
  OBVIOUS
<1> HIDE DEF values, marks
<1>5. BitsFor(marks, n) /\ \A i \in 1 .. n : Valid(marks, i) <=> marks[i]
  BY <1>4, ValidBits
<1>6. BitsFor(both, n) /\ \A i \in 1 .. n : Valid(both, i) <=> Valid(bits, i) /\ Valid(marks, i)
  BY <1>5, CombinedBits
<1> HIDE DEF both
<1>7. /\ PrimitiveOf(values, both) \in LeafArrays("primitive", Int)
      /\ LeafItems(PrimitiveOf(values, both)) = Items(values, both, n)
  BY <1>3, <1>6, NumbersAre
<1>8. PrimitiveOf(values, both) # Panic
  BY <1>7, MarksAssumption
<1>9. \A i \in 1 .. n : (IF Valid(both, i) THEN values[i] ELSE Null) = (IF Valid(bits, i) THEN f[i] ELSE Null)
  BY <1>3, <1>4, <1>5, <1>6, Zenon
<1>10. Items(values, both, n) = RowsOf(f, bits, n)
  BY <1>9, Zenon DEF Items, RowsOf
<1> QED BY <1>2, <1>7, <1>8, <1>10

\* What a kernel makes of operands a and b, row by row.
Computed(op, flavour, a, b, bits, n, checks) ==
  LET f == [i \in 1 .. n |-> ValueOf(op, flavour, a[i], b[i], checks)]
  IN  CASE flavour = "checked" -> Marked(f, bits)
        [] flavour = "overflowing" ->
             [array |-> Collected(f, bits), overflowed |-> [i \in 1 .. n |-> Overflows(ExactOf(op, a[i], b[i]))]]
        [] OTHER -> Collected(f, bits)

\* What is promised of it.
AsPromised(made, op, flavour, a, b, bits, n) ==
  /\ made # Panic => LeafItems(IF flavour = "overflowing" THEN made.array ELSE made)
                       = [i \in 1 .. n |-> IF Valid(bits, i) THEN PromiseOf(flavour, ExactOf(op, a[i], b[i])) ELSE Null]
  /\ made = Panic => flavour = "plain" /\ \E i \in 1 .. n : ~Fits(ExactOf(op, a[i], b[i]))
  /\ flavour = "overflowing" /\ made # Panic => made.overflowed = [i \in 1 .. n |-> ~Fits(ExactOf(op, a[i], b[i]))]

LEMMA ComputedIsPromised ==
  ASSUME NEW op, NEW flavour, NEW n \in Nat, NEW a, NEW b, NEW bits, BitsFor(bits, n), NEW checks,
         \A i \in 1 .. n : RowKept(op, flavour, a[i], b[i], checks)
  PROVE  AsPromised(Computed(op, flavour, a, b, bits, n, checks), op, flavour, a, b, bits, n)
<1> DEFINE x(i) == ExactOf(op, a[i], b[i])
           v(i) == ValueOf(op, flavour, a[i], b[i], checks)
           f == [i \in 1 .. n |-> v(i)]
           made == Computed(op, flavour, a, b, bits, n, checks)
<1>1. \A i \in 1 .. n :
        /\ v(i) \in Int \/ (v(i) = Null /\ flavour = "checked") \/ (v(i) = Panic /\ flavour = "plain" /\ ~Fits(x(i)))
        /\ v(i) # Panic => v(i) = PromiseOf(flavour, x(i))
        /\ ~Fits(x(i)) <=> Overflows(x(i))
  BY Zenon DEF RowKept
<1>2. f = [i \in 1 .. n |-> f[i]] /\ \A i \in 1 .. n : f[i] = v(i)
  OBVIOUS
<1>3. /\ flavour = "checked" => made = Marked(f, bits)
      /\ flavour = "overflowing" =>
           made = [array |-> Collected(f, bits), overflowed |-> [i \in 1 .. n |-> Overflows(x(i))]]
      /\ flavour \notin {"checked", "overflowing"} => made = Collected(f, bits)
  BY DEF Computed
<1>4. Panic # Null /\ Panic \notin Int
  BY IntsAre
<1> HIDE DEF f, made, v, x
<1>5. ASSUME \A i \in 1 .. n : f[i] # Panic
      PROVE  RowsOf(f, bits, n) = [i \in 1 .. n |-> IF Valid(bits, i) THEN PromiseOf(flavour, x(i)) ELSE Null]
  <2>1. \A i \in 1 .. n : f[i] = PromiseOf(flavour, x(i))
    BY <1>1, <1>2, <1>5
  <2> QED BY <2>1, Zenon DEF RowsOf
<1>6. CASE flavour = "checked"
  <2>1. \A i \in 1 .. n : f[i] \in Int \cup {Null}
    BY <1>1, <1>2, <1>6
  <2>2. made # Panic /\ LeafItems(made) = RowsOf(f, bits, n)
    BY <1>2, <1>3, <1>6, <2>1, MarkedAnswers
  <2>3. \A i \in 1 .. n : f[i] # Panic
    BY <1>4, <2>1
  <2> QED BY <1>5, <1>6, <2>2, <2>3 DEF AsPromised, made, x
<1>7. CASE flavour = "overflowing"
  <2>1. \A i \in 1 .. n : f[i] \in Int
    BY <1>1, <1>2, <1>7
  <2>2. \A i \in 1 .. n : f[i] \in Int \cup {Panic} /\ f[i] # Panic
    BY <1>4, <2>1
  <2>3. /\ Collected(f, bits) \in LeafArrays("primitive", Int)
        /\ LeafItems(Collected(f, bits)) = RowsOf(f, bits, n)
    BY <1>2, <2>2, CollectedAnswers
  <2> DEFINE over == [i \in 1 .. n |-> Overflows(x(i))]
  <2>4. over \in Seq(BOOLEAN)
    <3>1. \A i \in 1 .. n : Overflows(x(i)) \in BOOLEAN
      BY DEF Overflows
    <3> QED BY <3>1 DEF Seq
  <2> HIDE DEF over
  <2>5. made = [array |-> Collected(f, bits), overflowed |-> over]
    BY <1>3, <1>7 DEF over
  <2>6. made \in [array : LeafArrays("primitive", Int), overflowed : Seq(BOOLEAN)]
    BY <2>3, <2>4, <2>5
  <2>7. made # Panic /\ made.array = Collected(f, bits) /\ made.overflowed = over
    BY <2>5, <2>6, MarksAssumption
  <2>8. \A i \in 1 .. n : Overflows(x(i)) = ~Fits(x(i))
    <3> SUFFICES ASSUME NEW i \in 1 .. n PROVE Overflows(x(i)) = ~Fits(x(i))
      OBVIOUS
    <3>1. Overflows(x(i)) \in BOOLEAN /\ Fits(x(i)) \in BOOLEAN /\ (~Fits(x(i)) <=> Overflows(x(i)))
      BY <1>1 DEF Overflows, Fits
    <3> QED BY <3>1
  <2>9. over = [i \in 1 .. n |-> ~Fits(x(i))]
    BY <2>8 DEF over
  <2>10. LeafItems(made.array) = [i \in 1 .. n |-> IF Valid(bits, i) THEN PromiseOf(flavour, x(i)) ELSE Null]
    BY <1>5, <2>2, <2>3, <2>7
  <2> QED BY <1>7, <2>7, <2>9, <2>10 DEF AsPromised, made, x
<1>8. CASE flavour \notin {"checked", "overflowing"}
  <2>1. \A i \in 1 .. n : f[i] \in Int \cup {Panic} /\ (f[i] = Panic => flavour = "plain" /\ ~Fits(x(i)))
    BY <1>1, <1>2, <1>4, <1>8
  <2>2. /\ made = Panic <=> \E i \in 1 .. n : f[i] = Panic
        /\ made # Panic => LeafItems(made) = RowsOf(f, bits, n)
    BY <1>2, <1>3, <1>8, <2>1, CollectedAnswers
  <2>3. made # Panic => LeafItems(made) = [i \in 1 .. n |-> IF Valid(bits, i) THEN PromiseOf(flavour, x(i)) ELSE Null]
    BY <1>5, <2>2
  <2>4. made = Panic => flavour = "plain" /\ \E i \in 1 .. n : ~Fits(x(i))
    BY <2>1, <2>2
  <2> QED BY <1>8, <2>3, <2>4 DEF AsPromised, made, x
<1> QED BY <1>6, <1>7, <1>8

\* The bits of two arrays of numbers that are as long.
LEMMA TwoNumbers ==
  ASSUME NEW l \in Numbers, NEW r \in Numbers, NEW n, n = Len(l.values), SameLength(l, r)
  PROVE  /\ n \in Nat /\ DOMAIN l.values = 1 .. n /\ DOMAIN r.values = 1 .. n
         /\ \A i \in 1 .. n : l.values[i] \in Ints /\ r.values[i] \in Ints
         /\ BitsFor(l.validity, n) /\ BitsFor(r.validity, n) /\ LeafLength(r) = n
         /\ BitsFor(CombineValidities(l.validity, r.validity), n)
         /\ \A i \in 1 .. n : Valid(CombineValidities(l.validity, r.validity), i)
                                <=> Valid(l.validity, i) /\ Valid(r.validity, i)
<1>1. LeafOf(l, "primitive", Ints, Len(l.values)) /\ LeafOf(r, "primitive", Ints, Len(r.values))
  BY LeafIs DEF Numbers
<1>2. /\ l.values \in Seq(Ints) /\ r.values \in Seq(Ints) /\ n \in Nat
      /\ DOMAIN l.values = 1 .. n /\ DOMAIN r.values = 1 .. Len(r.values)
      /\ BitsFor(l.validity, n) /\ BitsFor(r.validity, Len(r.values))
      /\ LeafLength(l) = n /\ LeafLength(r) = Len(r.values)
  BY <1>1, Zenon DEF LeafOf
<1>3. Len(r.values) = n
  BY <1>2 DEF SameLength
<1>4. \A i \in 1 .. n : l.values[i] \in Ints /\ r.values[i] \in Ints
  BY <1>2, <1>3
<1> QED BY <1>2, <1>3, <1>4, CombinedBits

\* What a kernel makes of two arrays that are as long, and of an array and a number, row by row.
OfTwo(made, op, flavour, l, r, n, checks) ==
  made = Computed(op, flavour, l.values, r.values, CombineValidities(l.validity, r.validity), n, checks)
OfOne(made, op, flavour, l, s, n, checks) ==
  made = Computed(op, flavour, l.values, [i \in 1 .. n |-> s], l.validity, n, checks)

\* What add makes of one row.
LEMMA AddOfRow ==
  ASSUME NEW a, NEW b, NEW checks
  PROVE  /\ ExactOf("add", a, b) = Plus(a, b)
         /\ ValueOf("add", "plain", a, b, checks) = Native(Plus(a, b), checks)
         /\ ValueOf("add", "wrapping", a, b, checks) = Wrapped(Plus(a, b))
         /\ ValueOf("add", "saturating", a, b, checks) = Saturated(Plus(a, b))
         /\ ValueOf("add", "checked", a, b, checks) = Checked(Plus(a, b))
         /\ ValueOf("add", "overflowing", a, b, checks) = Wrapped(Plus(a, b))
<1>1. ExactOf("add", a, b) = Plus(a, b)
  BY DEF ExactOf, Plus
<1> QED BY <1>1 DEF ValueOf

\* add, of two arrays.
LEMMA AddComputes ==
  ASSUME NEW l, NEW r, SameLength(l, r), NEW n, DOMAIN l.values = 1 .. n, NEW checks, NEW flavour \in Flavours
  PROVE  OfTwo(Add(flavour, l, r, checks), "add", flavour, l, r, n, checks)
<1> DEFINE bits == CombineValidities(l.validity, r.validity)
<1>1. CASE flavour = "plain"
  <2>1. Add(flavour, l, r, checks) =
           Collected([i \in 1 .. n |-> Native(Plus(l.values[i], r.values[i]), checks)], bits)
    BY <1>1 DEF Add, OfArrays, Binary, BinaryChecked, BinaryWithBitmap
  <2>2. \A x, y : ExactOf("add", x, y) = Plus(x, y) /\ ValueOf("add", "plain", x, y, checks) = Native(Plus(x, y), checks)
    BY AddOfRow
  <2> QED BY <1>1, <2>1, <2>2 DEF OfTwo, Computed
<1>2. CASE flavour = "wrapping"
  <2>1. Add(flavour, l, r, checks) =
           Collected([i \in 1 .. n |-> Wrapped(Plus(l.values[i], r.values[i]))], bits)
    BY <1>2 DEF Add, OfArrays, Binary, BinaryChecked, BinaryWithBitmap
  <2>2. \A x, y : ExactOf("add", x, y) = Plus(x, y) /\ ValueOf("add", "wrapping", x, y, checks) = Wrapped(Plus(x, y))
    BY AddOfRow
  <2> QED BY <1>2, <2>1, <2>2 DEF OfTwo, Computed
<1>3. CASE flavour = "saturating"
  <2>1. Add(flavour, l, r, checks) =
           Collected([i \in 1 .. n |-> Saturated(Plus(l.values[i], r.values[i]))], bits)
    BY <1>3 DEF Add, OfArrays, Binary, BinaryChecked, BinaryWithBitmap
  <2>2. \A x, y : ExactOf("add", x, y) = Plus(x, y) /\ ValueOf("add", "saturating", x, y, checks) = Saturated(Plus(x, y))
    BY AddOfRow
  <2> QED BY <1>3, <2>1, <2>2 DEF OfTwo, Computed
<1>4. CASE flavour = "checked"
  <2>1. Add(flavour, l, r, checks) =
           Marked([i \in 1 .. n |-> Checked(Plus(l.values[i], r.values[i]))], bits)
    BY <1>4 DEF Add, OfArrays, Binary, BinaryChecked, BinaryWithBitmap
  <2>2. \A x, y : ExactOf("add", x, y) = Plus(x, y) /\ ValueOf("add", "checked", x, y, checks) = Checked(Plus(x, y))
    BY AddOfRow
  <2> QED BY <1>4, <2>1, <2>2 DEF OfTwo, Computed
<1>5. CASE flavour = "overflowing"
  <2>1. Add(flavour, l, r, checks) =
           [array |-> Collected([i \in 1 .. n |-> Wrapped(Plus(l.values[i], r.values[i]))], bits),
            overflowed |-> [i \in 1 .. n |-> Overflows(Plus(l.values[i], r.values[i]))]]
    BY <1>5 DEF Add, OfArrays, Binary, BinaryChecked, BinaryWithBitmap
  <2>2. \A x, y : ExactOf("add", x, y) = Plus(x, y) /\ ValueOf("add", "overflowing", x, y, checks) = Wrapped(Plus(x, y))
    BY AddOfRow
  <2> QED BY <1>5, <2>1, <2>2 DEF OfTwo, Computed
<1> QED BY <1>1, <1>2, <1>3, <1>4, <1>5 DEF Flavours

\* add, of an array and a number.
LEMMA AddScalarComputes ==
  ASSUME NEW l, NEW s, NEW n, DOMAIN l.values = 1 .. n, NEW checks, NEW flavour \in Flavours
  PROVE  OfOne(AddScalar(flavour, l, s, checks), "add", flavour, l, s, n, checks)
<1> DEFINE b == [i \in 1 .. n |-> s]
           bits == l.validity
<1>0. \A i \in 1 .. n : b[i] = s
  OBVIOUS
<1> HIDE DEF b
<1>1. CASE flavour = "plain"
  <2>1. AddScalar(flavour, l, s, checks) =
           Collected([i \in 1 .. n |-> Native(Plus(l.values[i], s), checks)], bits)
    BY <1>1 DEF AddScalar, OfScalar, Unary, UnaryChecked, UnaryWithBitmap
  <2>2. \A x, y : ExactOf("add", x, y) = Plus(x, y) /\ ValueOf("add", "plain", x, y, checks) = Native(Plus(x, y), checks)
    BY AddOfRow
  <2>3. AddScalar(flavour, l, s, checks) = Computed("add", flavour, l.values, b, l.validity, n, checks)
    BY <1>0, <1>1, <2>1, <2>2 DEF Computed
  <2> QED BY <2>3 DEF OfOne, b
<1>2. CASE flavour = "wrapping"
  <2>1. AddScalar(flavour, l, s, checks) =
           Collected([i \in 1 .. n |-> Wrapped(Plus(l.values[i], s))], bits)
    BY <1>2 DEF AddScalar, OfScalar, Unary, UnaryChecked, UnaryWithBitmap
  <2>2. \A x, y : ExactOf("add", x, y) = Plus(x, y) /\ ValueOf("add", "wrapping", x, y, checks) = Wrapped(Plus(x, y))
    BY AddOfRow
  <2>3. AddScalar(flavour, l, s, checks) = Computed("add", flavour, l.values, b, l.validity, n, checks)
    BY <1>0, <1>2, <2>1, <2>2 DEF Computed
  <2> QED BY <2>3 DEF OfOne, b
<1>3. CASE flavour = "saturating"
  <2>1. AddScalar(flavour, l, s, checks) =
           Collected([i \in 1 .. n |-> Saturated(Plus(l.values[i], s))], bits)
    BY <1>3 DEF AddScalar, OfScalar, Unary, UnaryChecked, UnaryWithBitmap
  <2>2. \A x, y : ExactOf("add", x, y) = Plus(x, y) /\ ValueOf("add", "saturating", x, y, checks) = Saturated(Plus(x, y))
    BY AddOfRow
  <2>3. AddScalar(flavour, l, s, checks) = Computed("add", flavour, l.values, b, l.validity, n, checks)
    BY <1>0, <1>3, <2>1, <2>2 DEF Computed
  <2> QED BY <2>3 DEF OfOne, b
<1>4. CASE flavour = "checked"
  <2>1. AddScalar(flavour, l, s, checks) =
           Marked([i \in 1 .. n |-> Checked(Plus(l.values[i], s))], bits)
    BY <1>4 DEF AddScalar, OfScalar, Unary, UnaryChecked, UnaryWithBitmap
  <2>2. \A x, y : ExactOf("add", x, y) = Plus(x, y) /\ ValueOf("add", "checked", x, y, checks) = Checked(Plus(x, y))
    BY AddOfRow
  <2>3. AddScalar(flavour, l, s, checks) = Computed("add", flavour, l.values, b, l.validity, n, checks)
    BY <1>0, <1>4, <2>1, <2>2 DEF Computed
  <2> QED BY <2>3 DEF OfOne, b
<1>5. CASE flavour = "overflowing"
  <2>1. AddScalar(flavour, l, s, checks) =
           [array |-> Collected([i \in 1 .. n |-> Wrapped(Plus(l.values[i], s))], bits),
            overflowed |-> [i \in 1 .. n |-> Overflows(Plus(l.values[i], s))]]
    BY <1>5 DEF AddScalar, OfScalar, Unary, UnaryChecked, UnaryWithBitmap
  <2>2. \A x, y : ExactOf("add", x, y) = Plus(x, y) /\ ValueOf("add", "overflowing", x, y, checks) = Wrapped(Plus(x, y))
    BY AddOfRow
  <2>3. AddScalar(flavour, l, s, checks) = Computed("add", flavour, l.values, b, l.validity, n, checks)
    BY <1>0, <1>5, <2>1, <2>2 DEF Computed
  <2> QED BY <2>3 DEF OfOne, b
<1> QED BY <1>1, <1>2, <1>3, <1>4, <1>5 DEF Flavours

\* What sub makes of one row.
LEMMA SubOfRow ==
  ASSUME NEW a, NEW b, NEW checks
  PROVE  /\ ExactOf("sub", a, b) = Minus(a, b)
         /\ ValueOf("sub", "plain", a, b, checks) = Native(Minus(a, b), checks)
         /\ ValueOf("sub", "wrapping", a, b, checks) = Wrapped(Minus(a, b))
         /\ ValueOf("sub", "saturating", a, b, checks) = Saturated(Minus(a, b))
         /\ ValueOf("sub", "checked", a, b, checks) = Checked(Minus(a, b))
         /\ ValueOf("sub", "overflowing", a, b, checks) = Wrapped(Minus(a, b))
<1>1. ExactOf("sub", a, b) = Minus(a, b)
  BY DEF ExactOf, Minus
<1> QED BY <1>1 DEF ValueOf

\* sub, of two arrays.
LEMMA SubComputes ==
  ASSUME NEW l, NEW r, SameLength(l, r), NEW n, DOMAIN l.values = 1 .. n, NEW checks, NEW flavour \in Flavours
  PROVE  OfTwo(Sub(flavour, l, r, checks), "sub", flavour, l, r, n, checks)
<1> DEFINE bits == CombineValidities(l.validity, r.validity)
<1>1. CASE flavour = "plain"
  <2>1. Sub(flavour, l, r, checks) =
           Collected([i \in 1 .. n |-> Native(Minus(l.values[i], r.values[i]), checks)], bits)
    BY <1>1 DEF Sub, OfArrays, Binary, BinaryChecked, BinaryWithBitmap
  <2>2. \A x, y : ExactOf("sub", x, y) = Minus(x, y) /\ ValueOf("sub", "plain", x, y, checks) = Native(Minus(x, y), checks)
    BY SubOfRow
  <2> QED BY <1>1, <2>1, <2>2 DEF OfTwo, Computed
<1>2. CASE flavour = "wrapping"
  <2>1. Sub(flavour, l, r, checks) =
           Collected([i \in 1 .. n |-> Wrapped(Minus(l.values[i], r.values[i]))], bits)
    BY <1>2 DEF Sub, OfArrays, Binary, BinaryChecked, BinaryWithBitmap
  <2>2. \A x, y : ExactOf("sub", x, y) = Minus(x, y) /\ ValueOf("sub", "wrapping", x, y, checks) = Wrapped(Minus(x, y))
    BY SubOfRow
  <2> QED BY <1>2, <2>1, <2>2 DEF OfTwo, Computed
<1>3. CASE flavour = "saturating"
  <2>1. Sub(flavour, l, r, checks) =
           Collected([i \in 1 .. n |-> Saturated(Minus(l.values[i], r.values[i]))], bits)
    BY <1>3 DEF Sub, OfArrays, Binary, BinaryChecked, BinaryWithBitmap
  <2>2. \A x, y : ExactOf("sub", x, y) = Minus(x, y) /\ ValueOf("sub", "saturating", x, y, checks) = Saturated(Minus(x, y))
    BY SubOfRow
  <2> QED BY <1>3, <2>1, <2>2 DEF OfTwo, Computed
<1>4. CASE flavour = "checked"
  <2>1. Sub(flavour, l, r, checks) =
           Marked([i \in 1 .. n |-> Checked(Minus(l.values[i], r.values[i]))], bits)
    BY <1>4 DEF Sub, OfArrays, Binary, BinaryChecked, BinaryWithBitmap
  <2>2. \A x, y : ExactOf("sub", x, y) = Minus(x, y) /\ ValueOf("sub", "checked", x, y, checks) = Checked(Minus(x, y))
    BY SubOfRow
  <2> QED BY <1>4, <2>1, <2>2 DEF OfTwo, Computed
<1>5. CASE flavour = "overflowing"
  <2>1. Sub(flavour, l, r, checks) =
           [array |-> Collected([i \in 1 .. n |-> Wrapped(Minus(l.values[i], r.values[i]))], bits),
            overflowed |-> [i \in 1 .. n |-> Overflows(Minus(l.values[i], r.values[i]))]]
    BY <1>5 DEF Sub, OfArrays, Binary, BinaryChecked, BinaryWithBitmap
  <2>2. \A x, y : ExactOf("sub", x, y) = Minus(x, y) /\ ValueOf("sub", "overflowing", x, y, checks) = Wrapped(Minus(x, y))
    BY SubOfRow
  <2> QED BY <1>5, <2>1, <2>2 DEF OfTwo, Computed
<1> QED BY <1>1, <1>2, <1>3, <1>4, <1>5 DEF Flavours

\* sub, of an array and a number.
LEMMA SubScalarComputes ==
  ASSUME NEW l, NEW s, NEW n, DOMAIN l.values = 1 .. n, NEW checks, NEW flavour \in Flavours
  PROVE  OfOne(SubScalar(flavour, l, s, checks), "sub", flavour, l, s, n, checks)
<1> DEFINE b == [i \in 1 .. n |-> s]
           bits == l.validity
<1>0. \A i \in 1 .. n : b[i] = s
  OBVIOUS
<1> HIDE DEF b
<1>1. CASE flavour = "plain"
  <2>1. SubScalar(flavour, l, s, checks) =
           Collected([i \in 1 .. n |-> Native(Minus(l.values[i], s), checks)], bits)
    BY <1>1 DEF SubScalar, OfScalar, Unary, UnaryChecked, UnaryWithBitmap
  <2>2. \A x, y : ExactOf("sub", x, y) = Minus(x, y) /\ ValueOf("sub", "plain", x, y, checks) = Native(Minus(x, y), checks)
    BY SubOfRow
  <2>3. SubScalar(flavour, l, s, checks) = Computed("sub", flavour, l.values, b, l.validity, n, checks)
    BY <1>0, <1>1, <2>1, <2>2 DEF Computed
  <2> QED BY <2>3 DEF OfOne, b
<1>2. CASE flavour = "wrapping"
  <2>1. SubScalar(flavour, l, s, checks) =
           Collected([i \in 1 .. n |-> Wrapped(Minus(l.values[i], s))], bits)
    BY <1>2 DEF SubScalar, OfScalar, Unary, UnaryChecked, UnaryWithBitmap
  <2>2. \A x, y : ExactOf("sub", x, y) = Minus(x, y) /\ ValueOf("sub", "wrapping", x, y, checks) = Wrapped(Minus(x, y))
    BY SubOfRow
  <2>3. SubScalar(flavour, l, s, checks) = Computed("sub", flavour, l.values, b, l.validity, n, checks)
    BY <1>0, <1>2, <2>1, <2>2 DEF Computed
  <2> QED BY <2>3 DEF OfOne, b
<1>3. CASE flavour = "saturating"
  <2>1. SubScalar(flavour, l, s, checks) =
           Collected([i \in 1 .. n |-> Saturated(Minus(l.values[i], s))], bits)
    BY <1>3 DEF SubScalar, OfScalar, Unary, UnaryChecked, UnaryWithBitmap
  <2>2. \A x, y : ExactOf("sub", x, y) = Minus(x, y) /\ ValueOf("sub", "saturating", x, y, checks) = Saturated(Minus(x, y))
    BY SubOfRow
  <2>3. SubScalar(flavour, l, s, checks) = Computed("sub", flavour, l.values, b, l.validity, n, checks)
    BY <1>0, <1>3, <2>1, <2>2 DEF Computed
  <2> QED BY <2>3 DEF OfOne, b
<1>4. CASE flavour = "checked"
  <2>1. SubScalar(flavour, l, s, checks) =
           Marked([i \in 1 .. n |-> Checked(Minus(l.values[i], s))], bits)
    BY <1>4 DEF SubScalar, OfScalar, Unary, UnaryChecked, UnaryWithBitmap
  <2>2. \A x, y : ExactOf("sub", x, y) = Minus(x, y) /\ ValueOf("sub", "checked", x, y, checks) = Checked(Minus(x, y))
    BY SubOfRow
  <2>3. SubScalar(flavour, l, s, checks) = Computed("sub", flavour, l.values, b, l.validity, n, checks)
    BY <1>0, <1>4, <2>1, <2>2 DEF Computed
  <2> QED BY <2>3 DEF OfOne, b
<1>5. CASE flavour = "overflowing"
  <2>1. SubScalar(flavour, l, s, checks) =
           [array |-> Collected([i \in 1 .. n |-> Wrapped(Minus(l.values[i], s))], bits),
            overflowed |-> [i \in 1 .. n |-> Overflows(Minus(l.values[i], s))]]
    BY <1>5 DEF SubScalar, OfScalar, Unary, UnaryChecked, UnaryWithBitmap
  <2>2. \A x, y : ExactOf("sub", x, y) = Minus(x, y) /\ ValueOf("sub", "overflowing", x, y, checks) = Wrapped(Minus(x, y))
    BY SubOfRow
  <2>3. SubScalar(flavour, l, s, checks) = Computed("sub", flavour, l.values, b, l.validity, n, checks)
    BY <1>0, <1>5, <2>1, <2>2 DEF Computed
  <2> QED BY <2>3 DEF OfOne, b
<1> QED BY <1>1, <1>2, <1>3, <1>4, <1>5 DEF Flavours

\* What mul makes of one row.
LEMMA MulOfRow ==
  ASSUME NEW a, NEW b, NEW checks
  PROVE  /\ ExactOf("mul", a, b) = Times(a, b)
         /\ ValueOf("mul", "plain", a, b, checks) = Native(Times(a, b), checks)
         /\ ValueOf("mul", "wrapping", a, b, checks) = Wrapped(Times(a, b))
         /\ ValueOf("mul", "saturating", a, b, checks) = Saturated(Times(a, b))
         /\ ValueOf("mul", "checked", a, b, checks) = Checked(Times(a, b))
         /\ ValueOf("mul", "overflowing", a, b, checks) = Wrapped(Times(a, b))
<1>1. ExactOf("mul", a, b) = Times(a, b)
  BY DEF ExactOf, Times
<1> QED BY <1>1 DEF ValueOf

\* mul, of two arrays.
LEMMA MulComputes ==
  ASSUME NEW l, NEW r, SameLength(l, r), NEW n, DOMAIN l.values = 1 .. n, NEW checks, NEW flavour \in Flavours
  PROVE  OfTwo(Mul(flavour, l, r, checks), "mul", flavour, l, r, n, checks)
<1> DEFINE bits == CombineValidities(l.validity, r.validity)
<1>1. CASE flavour = "plain"
  <2>1. Mul(flavour, l, r, checks) =
           Collected([i \in 1 .. n |-> Native(Times(l.values[i], r.values[i]), checks)], bits)
    BY <1>1 DEF Mul, OfArrays, Binary, BinaryChecked, BinaryWithBitmap
  <2>2. \A x, y : ExactOf("mul", x, y) = Times(x, y) /\ ValueOf("mul", "plain", x, y, checks) = Native(Times(x, y), checks)
    BY MulOfRow
  <2> QED BY <1>1, <2>1, <2>2 DEF OfTwo, Computed
<1>2. CASE flavour = "wrapping"
  <2>1. Mul(flavour, l, r, checks) =
           Collected([i \in 1 .. n |-> Wrapped(Times(l.values[i], r.values[i]))], bits)
    BY <1>2 DEF Mul, OfArrays, Binary, BinaryChecked, BinaryWithBitmap
  <2>2. \A x, y : ExactOf("mul", x, y) = Times(x, y) /\ ValueOf("mul", "wrapping", x, y, checks) = Wrapped(Times(x, y))
    BY MulOfRow
  <2> QED BY <1>2, <2>1, <2>2 DEF OfTwo, Computed
<1>3. CASE flavour = "saturating"
  <2>1. Mul(flavour, l, r, checks) =
           Collected([i \in 1 .. n |-> Saturated(Times(l.values[i], r.values[i]))], bits)
    BY <1>3 DEF Mul, OfArrays, Binary, BinaryChecked, BinaryWithBitmap
  <2>2. \A x, y : ExactOf("mul", x, y) = Times(x, y) /\ ValueOf("mul", "saturating", x, y, checks) = Saturated(Times(x, y))
    BY MulOfRow
  <2> QED BY <1>3, <2>1, <2>2 DEF OfTwo, Computed
<1>4. CASE flavour = "checked"
  <2>1. Mul(flavour, l, r, checks) =
           Marked([i \in 1 .. n |-> Checked(Times(l.values[i], r.values[i]))], bits)
    BY <1>4 DEF Mul, OfArrays, Binary, BinaryChecked, BinaryWithBitmap
  <2>2. \A x, y : ExactOf("mul", x, y) = Times(x, y) /\ ValueOf("mul", "checked", x, y, checks) = Checked(Times(x, y))
    BY MulOfRow
  <2> QED BY <1>4, <2>1, <2>2 DEF OfTwo, Computed
<1>5. CASE flavour = "overflowing"
  <2>1. Mul(flavour, l, r, checks) =
           [array |-> Collected([i \in 1 .. n |-> Wrapped(Times(l.values[i], r.values[i]))], bits),
            overflowed |-> [i \in 1 .. n |-> Overflows(Times(l.values[i], r.values[i]))]]
    BY <1>5 DEF Mul, OfArrays, Binary, BinaryChecked, BinaryWithBitmap
  <2>2. \A x, y : ExactOf("mul", x, y) = Times(x, y) /\ ValueOf("mul", "overflowing", x, y, checks) = Wrapped(Times(x, y))
    BY MulOfRow
  <2> QED BY <1>5, <2>1, <2>2 DEF OfTwo, Computed
<1> QED BY <1>1, <1>2, <1>3, <1>4, <1>5 DEF Flavours

\* mul, of an array and a number.
LEMMA MulScalarComputes ==
  ASSUME NEW l, NEW s, NEW n, DOMAIN l.values = 1 .. n, NEW checks, NEW flavour \in Flavours
  PROVE  OfOne(MulScalar(flavour, l, s, checks), "mul", flavour, l, s, n, checks)
<1> DEFINE b == [i \in 1 .. n |-> s]
           bits == l.validity
<1>0. \A i \in 1 .. n : b[i] = s
  OBVIOUS
<1> HIDE DEF b
<1>1. CASE flavour = "plain"
  <2>1. MulScalar(flavour, l, s, checks) =
           Collected([i \in 1 .. n |-> Native(Times(l.values[i], s), checks)], bits)
    BY <1>1 DEF MulScalar, OfScalar, Unary, UnaryChecked, UnaryWithBitmap
  <2>2. \A x, y : ExactOf("mul", x, y) = Times(x, y) /\ ValueOf("mul", "plain", x, y, checks) = Native(Times(x, y), checks)
    BY MulOfRow
  <2>3. MulScalar(flavour, l, s, checks) = Computed("mul", flavour, l.values, b, l.validity, n, checks)
    BY <1>0, <1>1, <2>1, <2>2 DEF Computed
  <2> QED BY <2>3 DEF OfOne, b
<1>2. CASE flavour = "wrapping"
  <2>1. MulScalar(flavour, l, s, checks) =
           Collected([i \in 1 .. n |-> Wrapped(Times(l.values[i], s))], bits)
    BY <1>2 DEF MulScalar, OfScalar, Unary, UnaryChecked, UnaryWithBitmap
  <2>2. \A x, y : ExactOf("mul", x, y) = Times(x, y) /\ ValueOf("mul", "wrapping", x, y, checks) = Wrapped(Times(x, y))
    BY MulOfRow
  <2>3. MulScalar(flavour, l, s, checks) = Computed("mul", flavour, l.values, b, l.validity, n, checks)
    BY <1>0, <1>2, <2>1, <2>2 DEF Computed
  <2> QED BY <2>3 DEF OfOne, b
<1>3. CASE flavour = "saturating"
  <2>1. MulScalar(flavour, l, s, checks) =
           Collected([i \in 1 .. n |-> Saturated(Times(l.values[i], s))], bits)
    BY <1>3 DEF MulScalar, OfScalar, Unary, UnaryChecked, UnaryWithBitmap
  <2>2. \A x, y : ExactOf("mul", x, y) = Times(x, y) /\ ValueOf("mul", "saturating", x, y, checks) = Saturated(Times(x, y))
    BY MulOfRow
  <2>3. MulScalar(flavour, l, s, checks) = Computed("mul", flavour, l.values, b, l.validity, n, checks)
    BY <1>0, <1>3, <2>1, <2>2 DEF Computed
  <2> QED BY <2>3 DEF OfOne, b
<1>4. CASE flavour = "checked"
  <2>1. MulScalar(flavour, l, s, checks) =
           Marked([i \in 1 .. n |-> Checked(Times(l.values[i], s))], bits)
    BY <1>4 DEF MulScalar, OfScalar, Unary, UnaryChecked, UnaryWithBitmap
  <2>2. \A x, y : ExactOf("mul", x, y) = Times(x, y) /\ ValueOf("mul", "checked", x, y, checks) = Checked(Times(x, y))
    BY MulOfRow
  <2>3. MulScalar(flavour, l, s, checks) = Computed("mul", flavour, l.values, b, l.validity, n, checks)
    BY <1>0, <1>4, <2>1, <2>2 DEF Computed
  <2> QED BY <2>3 DEF OfOne, b
<1>5. CASE flavour = "overflowing"
  <2>1. MulScalar(flavour, l, s, checks) =
           [array |-> Collected([i \in 1 .. n |-> Wrapped(Times(l.values[i], s))], bits),
            overflowed |-> [i \in 1 .. n |-> Overflows(Times(l.values[i], s))]]
    BY <1>5 DEF MulScalar, OfScalar, Unary, UnaryChecked, UnaryWithBitmap
  <2>2. \A x, y : ExactOf("mul", x, y) = Times(x, y) /\ ValueOf("mul", "overflowing", x, y, checks) = Wrapped(Times(x, y))
    BY MulOfRow
  <2>3. MulScalar(flavour, l, s, checks) = Computed("mul", flavour, l.values, b, l.validity, n, checks)
    BY <1>0, <1>5, <2>1, <2>2 DEF Computed
  <2> QED BY <2>3 DEF OfOne, b
<1> QED BY <1>1, <1>2, <1>3, <1>4, <1>5 DEF Flavours

\* div, of two arrays where every row is divided.
LEMMA DivComputes ==
  ASSUME NEW l, NEW r, SameLength(l, r), NEW n, DOMAIN l.values = 1 .. n, NEW checks,
         NEW flavour \in {"plain", "checked"}, flavour = "plain" => NullsOf(r) = {}
  PROVE  OfTwo(Div(flavour, l, r), "div", flavour, l, r, n, checks)
<1>1. \A a, b : /\ ValueOf("div", "plain", a, b, checks) = Divided(a, b)
                /\ ValueOf("div", "checked", a, b, checks) = NullIfPanic(Divided(a, b))
  BY DEF ValueOf
<1>2. CASE flavour = "plain"
  BY <1>1, <1>2 DEF OfTwo, Div, Binary, Computed
<1>3. CASE flavour = "checked"
  BY <1>1, <1>3 DEF OfTwo, Div, BinaryChecked, Computed
<1> QED BY <1>2, <1>3

\* div, of an array and a number that can be reduced.
LEMMA DivScalarComputes ==
  ASSUME NEW l, NEW s, NEW n, DOMAIN l.values = 1 .. n, NEW checks, NEW flavour \in {"plain", "checked"},
         ~(flavour = "plain" /\ s = 0 /\ MinInt = 0)
  PROVE  OfOne(DivScalar(flavour, l, s), "div", flavour, l, s, n, checks)
<1> DEFINE b == [i \in 1 .. n |-> s]
<1>0. \A i \in 1 .. n : b[i] = s
  OBVIOUS
<1> HIDE DEF b
<1>1. \A x, y : /\ ValueOf("div", "plain", x, y, checks) = Divided(x, y)
                /\ ValueOf("div", "checked", x, y, checks) = NullIfPanic(Divided(x, y))
  BY DEF ValueOf
<1>2. CASE flavour = "plain"
  <2>1. DivScalar(flavour, l, s) = Collected([i \in 1 .. n |-> Divided(l.values[i], s)], l.validity)
    BY <1>2 DEF DivScalar, Unary
  <2> QED BY <1>0, <1>1, <1>2, <2>1 DEF OfOne, Computed, b
<1>3. CASE flavour = "checked"
  <2>1. DivScalar(flavour, l, s) = Marked([i \in 1 .. n |-> NullIfPanic(Divided(l.values[i], s))], l.validity)
    BY <1>3 DEF DivScalar, UnaryChecked
  <2> QED BY <1>0, <1>1, <1>3, <2>1 DEF OfOne, Computed, b
<1> QED BY <1>2, <1>3

\* rem, of two arrays.
LEMMA RemComputes ==
  ASSUME NEW l, NEW r, SameLength(l, r), NEW n, DOMAIN l.values = 1 .. n, NEW checks,
         NEW flavour \in {"plain", "checked"}
  PROVE  OfTwo(Rem(flavour, l, r), "rem", flavour, l, r, n, checks)
<1>1. \A a, b : /\ ValueOf("rem", "plain", a, b, checks) = Rest(a, b)
                /\ ValueOf("rem", "checked", a, b, checks) = NullIfPanic(Rest(a, b))
  BY DEF ValueOf
<1>2. CASE flavour = "plain"
  BY <1>1, <1>2 DEF OfTwo, Rem, Binary, Computed
<1>3. CASE flavour = "checked"
  BY <1>1, <1>3 DEF OfTwo, Rem, BinaryChecked, Computed
<1> QED BY <1>2, <1>3

\* rem, of an array and a number that can be reduced.
LEMMA RemScalarComputes ==
  ASSUME NEW l, NEW s, NEW n, DOMAIN l.values = 1 .. n, NEW checks, NEW flavour \in {"plain", "checked"},
         ~(flavour = "plain" /\ s = 0 /\ MinInt = 0)
  PROVE  OfOne(RemScalar(flavour, l, s), "rem", flavour, l, s, n, checks)
<1> DEFINE b == [i \in 1 .. n |-> s]
<1>0. \A i \in 1 .. n : b[i] = s
  OBVIOUS
<1> HIDE DEF b
<1>1. \A x, y : /\ ValueOf("rem", "plain", x, y, checks) = Rest(x, y)
                /\ ValueOf("rem", "checked", x, y, checks) = NullIfPanic(Rest(x, y))
  BY DEF ValueOf
<1>2. CASE flavour = "plain"
  <2>1. RemScalar(flavour, l, s) = Collected([i \in 1 .. n |-> Rest(l.values[i], s)], l.validity)
    BY <1>2 DEF RemScalar, Unary
  <2> QED BY <1>0, <1>1, <1>2, <2>1 DEF OfOne, Computed, b
<1>3. CASE flavour = "checked"
  <2>1. RemScalar(flavour, l, s) = Marked([i \in 1 .. n |-> NullIfPanic(Rest(l.values[i], s))], l.validity)
    BY <1>3 DEF RemScalar, UnaryChecked
  <2> QED BY <1>0, <1>1, <1>3, <2>1 DEF OfOne, Computed, b
<1> QED BY <1>2, <1>3

\* neg.
LEMMA NegateComputes ==
  ASSUME NEW l, NEW s, NEW n, DOMAIN l.values = 1 .. n, NEW checks, NEW flavour \in {"plain", "wrapping", "checked"}
  PROVE  OfOne(Negate(flavour, l, checks), "neg", flavour, l, s, n, checks)
<1> DEFINE b == [i \in 1 .. n |-> s]
<1>1. \A x, y : ExactOf("neg", x, y) = -x
  BY DEF ExactOf
<1>2. \A x, y : /\ ValueOf("neg", "plain", x, y, checks) = Native(-x, checks)
                /\ ValueOf("neg", "wrapping", x, y, checks) = Wrapped(-x)
                /\ ValueOf("neg", "checked", x, y, checks) = Checked(-x)
  BY <1>1 DEF ValueOf
<1> HIDE DEF b
<1>3. CASE flavour = "plain"
  <2>1. Negate("plain", l, checks) = Collected([i \in 1 .. n |-> Native(-l.values[i], checks)], l.validity)
    BY DEF Negate, Unary
  <2> QED BY <1>2, <1>3, <2>1 DEF OfOne, Computed, b
<1>4. CASE flavour = "wrapping"
  <2>1. Negate("wrapping", l, checks) = Collected([i \in 1 .. n |-> Wrapped(-l.values[i])], l.validity)
    BY DEF Negate, Unary
  <2> QED BY <1>2, <1>4, <2>1 DEF OfOne, Computed, b
<1>5. CASE flavour = "checked"
  <2>1. Negate("checked", l, checks) = Marked([i \in 1 .. n |-> Checked(-l.values[i])], l.validity)
    BY DEF Negate, UnaryChecked
  <2> QED BY <1>2, <1>5, <2>1 DEF OfOne, Computed, b
<1> QED BY <1>3, <1>4, <1>5

\* checked_pow.
LEMMA PowComputes ==
  ASSUME NEW l, NEW s, NEW n, DOMAIN l.values = 1 .. n, NEW checks
  PROVE  OfOne(CheckedPowScalar(l, s), "pow", "checked", l, s, n, checks)
<1> DEFINE b == [i \in 1 .. n |-> s]
<1>0. \A i \in 1 .. n : b[i] = s
  OBVIOUS
<1> HIDE DEF b
<1>1. \A x, y : ExactOf("pow", x, y) = Power(x, y)
  BY DEF ExactOf
<1>2. \A x, y : ValueOf("pow", "checked", x, y, checks) = Checked(Power(x, y))
  BY <1>1 DEF ValueOf
<1>3. CheckedPowScalar(l, s) = Marked([i \in 1 .. n |-> Checked(Power(l.values[i], s))], l.validity)
  BY DEF CheckedPowScalar, UnaryChecked
<1> QED BY <1>0, <1>2, <1>3 DEF OfOne, Computed, b

\* div of two arrays, of which the divisor has nulls: rows with a null are not divided.
LEMMA NullsAreNotDivided ==
  ASSUME NEW l \in Numbers, NEW r \in Numbers, NEW n, n = Len(l.values), SameLength(l, r), NullsOf(r) # {}, NEW checks \in BOOLEAN
  PROVE  AsPromised(Div("plain", l, r), "div", "plain", l.values, r.values, CombineValidities(l.validity, r.validity), n)
<1> DEFINE bits == [i \in 1 .. n |-> Valid(l.validity, i) /\ Valid(r.validity, i)]
           combined == CombineValidities(l.validity, r.validity)
           x(i) == ExactOf("div", l.values[i], r.values[i])
           d(i) == Divided(l.values[i], r.values[i])
           f == [i \in 1 .. n |-> IF bits[i] THEN d(i) ELSE 0]
           made == Collected(f, OptionalBits(bits))
<1>1. /\ n \in Nat /\ DOMAIN l.values = 1 .. n
      /\ \A i \in 1 .. n : l.values[i] \in Ints /\ r.values[i] \in Ints
      /\ \A i \in 1 .. n : Valid(combined, i) <=> Valid(l.validity, i) /\ Valid(r.validity, i)
  BY TwoNumbers
<1>2. Div("plain", l, r) = made
  <2>1. DOMAIN bits = 1 .. n
    OBVIOUS
  <2>2. Div("plain", l, r) = Collected([i \in DOMAIN bits |-> IF bits[i] THEN d(i) ELSE 0], OptionalBits(bits))
    BY <1>1 DEF Div
  <2> QED BY <2>1, <2>2
<1>3. \A i \in 1 .. n : /\ d(i) \in Int \/ (d(i) = Panic /\ ~Fits(x(i)))
                        /\ d(i) # Panic => d(i) = PromiseOf("plain", x(i))
  <2> SUFFICES ASSUME NEW i \in 1 .. n
               PROVE  /\ d(i) \in Int \/ (d(i) = Panic /\ ~Fits(x(i)))
                      /\ d(i) # Panic => d(i) = PromiseOf("plain", x(i))
    OBVIOUS
  <2>1. RowKept("div", "plain", l.values[i], r.values[i], checks)
    BY <1>1, DivisionIsKept
  <2>2. ValueOf("div", "plain", l.values[i], r.values[i], checks) = d(i)
    BY DEF ValueOf
  <2> QED BY <2>1, <2>2 DEF RowKept
<1>4. bits \in [1 .. n -> BOOLEAN] /\ \A i \in 1 .. n : bits[i] <=> Valid(combined, i)
  BY <1>1
<1> HIDE DEF bits, combined, x, d
<1>5. /\ BitsFor(OptionalBits(bits), n)
      /\ \A i \in 1 .. n : Valid(OptionalBits(bits), i) <=> bits[i]
  <2>1. BitsFor(bits, n) /\ \A i \in 1 .. n : Valid(bits, i) <=> bits[i]
    BY <1>1, <1>4, ValidBits
  <2>2. CASE \A i \in 1 .. n : bits[i]
    <3>1. OptionalBits(bits) = NoValidity
      BY <1>4, <2>2 DEF OptionalBits
    <3> QED BY <2>2, <3>1 DEF BitsFor, Valid
  <2>3. CASE ~\A i \in 1 .. n : bits[i]
    <3>1. OptionalBits(bits) = bits
      BY <1>4, <2>3 DEF OptionalBits
    <3> QED BY <2>1, <3>1
  <2> QED BY <2>2, <2>3
<1>6. f = [i \in 1 .. n |-> f[i]] /\ \A i \in 1 .. n : (bits[i] => f[i] = d(i)) /\ (~bits[i] => f[i] = 0)
  OBVIOUS
<1>7. \A i \in 1 .. n : f[i] \in Int \cup {Panic}
  BY <1>3, <1>6
<1> HIDE DEF f
<1>8. /\ made = Panic <=> \E i \in 1 .. n : f[i] = Panic
      /\ made # Panic => LeafItems(made) = RowsOf(f, OptionalBits(bits), n)
  BY <1>1, <1>5, <1>6, <1>7, CollectedAnswers
<1>9. made # Panic => LeafItems(made) = [i \in 1 .. n |-> IF Valid(combined, i) THEN PromiseOf("plain", x(i)) ELSE Null]
  <2> SUFFICES ASSUME made # Panic
               PROVE  RowsOf(f, OptionalBits(bits), n)
                        = [i \in 1 .. n |-> IF Valid(combined, i) THEN PromiseOf("plain", x(i)) ELSE Null]
    BY <1>8
  <2>1. \A i \in 1 .. n : f[i] # Panic
    BY <1>8
  <2>2. \A i \in 1 .. n : (IF Valid(OptionalBits(bits), i) THEN f[i] ELSE Null)
                            = (IF Valid(combined, i) THEN PromiseOf("plain", x(i)) ELSE Null)
    BY <1>3, <1>4, <1>5, <1>6, <2>1, Zenon
  <2> QED BY <2>2, Zenon DEF RowsOf
<1>10. made = Panic => \E i \in 1 .. n : ~Fits(x(i))
  <2> SUFFICES ASSUME made = Panic PROVE \E i \in 1 .. n : ~Fits(x(i))
    OBVIOUS
  <2>1. PICK i \in 1 .. n : f[i] = Panic
    BY <1>8
  <2>2. bits[i] /\ d(i) = Panic
    BY <1>6, <2>1, IntsAre
  <2>3. ~Fits(x(i))
    BY <1>3, <2>2, IntsAre
  <2> QED BY <2>3
<1> HIDE DEF made
<1> QED BY <1>2, <1>9, <1>10 DEF AsPromised, combined, x

\* The operands on the right of a call, row by row, and the rows that are null.
Operands(c, n) == IF c.kernel = "arithmetic" THEN c.right.values ELSE [i \in 1 .. n |-> c.right]
BothValid(c) == IF c.kernel = "arithmetic" THEN CombineValidities(c.left.validity, c.right.validity) ELSE c.left.validity

\* What ArithmeticIsByRow says of a call and what it is answered.
ArithmeticSays(c, r) ==
  LET n == Len(c.left.values)
  IN  \/ /\ c.kernel = "arithmetic" => SameLength(c.left, c.right)
         /\ AsPromised(r, c.op, c.flavour, c.left.values, Operands(c, n), BothValid(c), n)
      \/ r = Panic /\ c.kernel = "arithmetic" /\ ~SameLength(c.left, c.right)
      \/ r = Panic /\ c.flavour = "plain" /\ c.right = 0 /\ c.op \in {"div", "rem"}

\* What a call of arithmetic is made with.
LEMMA ArithmeticCallIs ==
  ASSUME NEW c \in ArithmeticCalls
  PROVE  /\ c.left \in Numbers /\ c.kernel \in {"arithmetic", "arithmetic_scalar"}
         /\ c.flavour \in FlavoursOf(c.op) /\ c.flavour \in Flavours /\ c.op \in Operations
         /\ c.kernel = "arithmetic" => c.op \in {"add", "sub", "mul", "div", "rem"} /\ c.right \in Numbers
         /\ c.kernel = "arithmetic_scalar" => c.op = "pow" \/ c.right \in Ints
<1> HIDE DEF Numbers
<1>1. CASE c \in [kernel : {"arithmetic"}, op : {"add", "sub", "mul", "div", "rem"}, flavour : Flavours, left : Numbers, right : Numbers]
  BY <1>1 DEF ArithmeticCalls, Operations
<1>2. CASE c \in [kernel : {"arithmetic_scalar"}, op : {"add", "sub", "mul", "div", "rem", "neg", "pow"}, flavour : Flavours,
                  left : Numbers, right : Int]
  <2>1. c.kernel = "arithmetic_scalar" /\ c.op \in Operations /\ c.flavour \in Flavours /\ c.left \in Numbers
    BY <1>2 DEF Operations
  <2>2. c \notin [kernel : {"arithmetic"}, op : {"add", "sub", "mul", "div", "rem"}, flavour : Flavours, left : Numbers, right : Numbers]
    BY <2>1
  <2>3. c.flavour \in FlavoursOf(c.op) /\ IF c.op = "pow" THEN c.right \in Nat ELSE c.right \in Ints \cup {0}
    BY <2>2, Zenon DEF ArithmeticCalls
  <2>4. 0 \in Ints
    BY IntsAre
  <2> QED BY <2>1, <2>3, <2>4
<1> QED BY <1>1, <1>2 DEF ArithmeticCalls

\* Every row of a call is kept.
LEMMA CallRowsAreKept ==
  ASSUME NEW c \in ArithmeticCalls, NEW checks \in BOOLEAN, NEW n, n = Len(c.left.values),
         c.kernel = "arithmetic" => SameLength(c.left, c.right)
  PROVE  /\ n \in Nat /\ DOMAIN c.left.values = 1 .. n /\ BitsFor(BothValid(c), n)
         /\ \A i \in 1 .. n : RowKept(c.op, c.flavour, c.left.values[i], Operands(c, n)[i], checks)
<1>1. c.left \in Numbers /\ c.kernel \in {"arithmetic", "arithmetic_scalar"} /\ c.flavour \in FlavoursOf(c.op) /\ c.op \in Operations
  BY ArithmeticCallIs
<1>2. SameLength(c.left, c.left)
  BY DEF SameLength
<1>3. /\ n \in Nat /\ DOMAIN c.left.values = 1 .. n /\ BitsFor(c.left.validity, n)
      /\ \A i \in 1 .. n : c.left.values[i] \in Ints
  BY <1>1, <1>2, TwoNumbers
<1>4. /\ BitsFor(BothValid(c), n)
      /\ \A i \in 1 .. n : c.op = "pow" \/ Operands(c, n)[i] \in Ints
  <2>1. CASE c.kernel = "arithmetic"
    <3>1. c.right \in Numbers
      BY <2>1, ArithmeticCallIs
    <3>2. /\ BitsFor(CombineValidities(c.left.validity, c.right.validity), n)
          /\ \A i \in 1 .. n : c.right.values[i] \in Ints
      BY <1>1, <2>1, <3>1, TwoNumbers
    <3> QED BY <2>1, <3>2 DEF BothValid, Operands
  <2>2. CASE c.kernel = "arithmetic_scalar"
    <3>1. c.op = "pow" \/ c.right \in Ints
      BY <2>2, ArithmeticCallIs
    <3> QED BY <1>3, <2>2, <3>1 DEF BothValid, Operands
  <2> QED BY <1>1, <2>1, <2>2
<1>5. ASSUME NEW i \in 1 .. n PROVE RowKept(c.op, c.flavour, c.left.values[i], Operands(c, n)[i], checks)
  BY <1>1, <1>3, <1>4, RowsAreKept
<1> QED BY <1>3, <1>4, <1>5

\* A kernel of two arrays answers as is promised.
LEMMA ArraysAnswer ==
  ASSUME NEW c \in ArithmeticCalls, c.kernel = "arithmetic", NEW checks \in BOOLEAN
  PROVE  ArithmeticSays(c, ArrayResult(c, checks))
<1> DEFINE l == c.left
           r == c.right
           n == Len(l.values)
           made == Computed(c.op, c.flavour, l.values, Operands(c, n), BothValid(c), n, checks)
<1>1. /\ l \in Numbers /\ r \in Numbers /\ c.flavour \in FlavoursOf(c.op) /\ c.flavour \in Flavours
      /\ c.op \in {"add", "sub", "mul", "div", "rem"}
  BY ArithmeticCallIs
<1>2. c.op \in {"div", "rem"} => c.flavour \in {"plain", "checked"}
  BY <1>1 DEF FlavoursOf
<1>3. Operands(c, n) = r.values /\ BothValid(c) = CombineValidities(l.validity, r.validity)
  BY DEF Operands, BothValid
<1>4. CASE SameLength(l, r)
  <2>1. /\ n \in Nat /\ DOMAIN l.values = 1 .. n /\ BitsFor(BothValid(c), n)
        /\ \A i \in 1 .. n : RowKept(c.op, c.flavour, l.values[i], Operands(c, n)[i], checks)
    BY <1>4, CallRowsAreKept
  <2>2. AsPromised(made, c.op, c.flavour, l.values, Operands(c, n), BothValid(c), n)
    <3> HIDE DEF l, r, n
    <3> QED BY <2>1, ComputedIsPromised
  <2>3. CASE c.op = "div" /\ c.flavour = "plain" /\ NullsOf(r) # {}
    <3>1. AsPromised(Div("plain", l, r), "div", "plain", l.values, r.values, CombineValidities(l.validity, r.validity), n)
      BY <1>1, <1>4, <2>3, NullsAreNotDivided
    <3>2. ArrayResult(c, checks) = Div("plain", l, r)
      BY <2>3 DEF ArrayResult
    <3> QED BY <1>3, <1>4, <2>3, <3>1, <3>2 DEF ArithmeticSays
  <2>4. CASE ~(c.op = "div" /\ c.flavour = "plain" /\ NullsOf(r) # {})
    <3> HIDE DEF l, r, n, made
    <3>1. ArrayResult(c, checks) = made
      <4>1. CASE c.op = "add"
        <5>1. ArrayResult(c, checks) = Add(c.flavour, l, r, checks)
          BY <4>1 DEF ArrayResult, l, r
        <5>2. OfTwo(Add(c.flavour, l, r, checks), "add", c.flavour, l, r, n, checks)
          BY <1>1, <1>2, <1>4, <2>1, <2>4, <4>1, AddComputes
        <5> QED BY <1>3, <4>1, <5>1, <5>2 DEF OfTwo, made
      <4>2. CASE c.op = "sub"
        <5>1. ArrayResult(c, checks) = Sub(c.flavour, l, r, checks)
          BY <4>2 DEF ArrayResult, l, r
        <5>2. OfTwo(Sub(c.flavour, l, r, checks), "sub", c.flavour, l, r, n, checks)
          BY <1>1, <1>2, <1>4, <2>1, <2>4, <4>2, SubComputes
        <5> QED BY <1>3, <4>2, <5>1, <5>2 DEF OfTwo, made
      <4>3. CASE c.op = "mul"
        <5>1. ArrayResult(c, checks) = Mul(c.flavour, l, r, checks)
          BY <4>3 DEF ArrayResult, l, r
        <5>2. OfTwo(Mul(c.flavour, l, r, checks), "mul", c.flavour, l, r, n, checks)
          BY <1>1, <1>2, <1>4, <2>1, <2>4, <4>3, MulComputes
        <5> QED BY <1>3, <4>3, <5>1, <5>2 DEF OfTwo, made
      <4>4. CASE c.op = "div"
        <5>1. ArrayResult(c, checks) = Div(c.flavour, l, r)
          BY <4>4 DEF ArrayResult, l, r
        <5>2. OfTwo(Div(c.flavour, l, r), "div", c.flavour, l, r, n, checks)
          BY <1>1, <1>2, <1>4, <2>1, <2>4, <4>4, DivComputes
        <5> QED BY <1>3, <4>4, <5>1, <5>2 DEF OfTwo, made
      <4>5. CASE c.op = "rem"
        <5>1. ArrayResult(c, checks) = Rem(c.flavour, l, r)
          BY <4>5 DEF ArrayResult, l, r
        <5>2. OfTwo(Rem(c.flavour, l, r), "rem", c.flavour, l, r, n, checks)
          BY <1>1, <1>2, <1>4, <2>1, <2>4, <4>5, RemComputes
        <5> QED BY <1>3, <4>5, <5>1, <5>2 DEF OfTwo, made
      <4> QED BY <1>1, <4>1, <4>2, <4>3, <4>4, <4>5
    <3> QED BY <1>4, <2>2, <3>1 DEF ArithmeticSays, l, r, n
  <2> QED BY <2>3, <2>4
<1>5. CASE ~SameLength(l, r)
  <2>1. \A f : /\ Div(f, l, r) = Panic \/ (f # "checked" /\ NullsOf(r) = {} /\ Div(f, l, r) = Binary(l, r, Divided))
               /\ Rem(f, l, r) = Panic
    BY <1>5, Zenon DEF Div, Rem, Binary, BinaryChecked
  <2>2. Binary(l, r, Divided) = Panic
    BY <1>5, Zenon DEF Binary
  <2>3. \A f \in Flavours : Add(f, l, r, checks) = Panic /\ Sub(f, l, r, checks) = Panic /\ Mul(f, l, r, checks) = Panic
    BY <1>5 DEF Add, Sub, Mul, OfArrays, Binary, BinaryChecked, BinaryWithBitmap, Flavours
  <2> HIDE DEF l, r, n
  <2>4. ArrayResult(c, checks) = Panic
    BY <1>1, <2>1, <2>2, <2>3 DEF ArrayResult, l, r
  <2> QED BY <1>5, <2>4 DEF ArithmeticSays, l, r
<1> QED BY <1>4, <1>5

\* A kernel of an array and a number answers as is promised.
LEMMA ScalarAnswers ==
  ASSUME NEW c \in ArithmeticCalls, c.kernel = "arithmetic_scalar", NEW checks \in BOOLEAN
  PROVE  ArithmeticSays(c, ScalarResult(c, checks))
<1> DEFINE l == c.left
           n == Len(l.values)
           made == Computed(c.op, c.flavour, l.values, Operands(c, n), BothValid(c), n, checks)
<1>1. l \in Numbers /\ c.flavour \in FlavoursOf(c.op) /\ c.flavour \in Flavours /\ c.op \in Operations
  BY ArithmeticCallIs
<1>2. /\ c.op \in {"div", "rem"} => c.flavour \in {"plain", "checked"}
      /\ c.op = "neg" => c.flavour \in {"plain", "wrapping", "checked"}
      /\ c.op = "pow" => c.flavour = "checked"
  BY <1>1 DEF FlavoursOf
<1>3. Operands(c, n) = [i \in 1 .. n |-> c.right] /\ BothValid(c) = l.validity
  BY DEF Operands, BothValid
<1>4. /\ n \in Nat /\ DOMAIN l.values = 1 .. n /\ BitsFor(BothValid(c), n)
      /\ \A i \in 1 .. n : RowKept(c.op, c.flavour, l.values[i], Operands(c, n)[i], checks)
  BY CallRowsAreKept
<1>5. AsPromised(made, c.op, c.flavour, l.values, Operands(c, n), BothValid(c), n)
  <2> HIDE DEF l, n
  <2> QED BY <1>4, ComputedIsPromised
<1>6. CASE c.op \in {"div", "rem"} /\ c.flavour = "plain" /\ c.right = 0 /\ MinInt = 0
  <2>1. ScalarResult(c, checks) = Panic
    BY <1>6 DEF ScalarResult, DivScalar, RemScalar
  <2> QED BY <1>6, <2>1 DEF ArithmeticSays
<1>7. CASE ~(c.op \in {"div", "rem"} /\ c.flavour = "plain" /\ c.right = 0 /\ MinInt = 0)
  <2> HIDE DEF l, n, made
  <2>1. ScalarResult(c, checks) = made
    <3>1. CASE c.op = "add"
      <4>1. ScalarResult(c, checks) = AddScalar(c.flavour, l, c.right, checks)
        BY <3>1 DEF ScalarResult, l
      <4>2. OfOne(AddScalar(c.flavour, l, c.right, checks), "add", c.flavour, l, c.right, n, checks)
        BY <1>1, <1>2, <1>4, <1>7, <3>1, AddScalarComputes
      <4> QED BY <1>2, <1>3, <3>1, <4>1, <4>2 DEF OfOne, made
    <3>2. CASE c.op = "sub"
      <4>1. ScalarResult(c, checks) = SubScalar(c.flavour, l, c.right, checks)
        BY <3>2 DEF ScalarResult, l
      <4>2. OfOne(SubScalar(c.flavour, l, c.right, checks), "sub", c.flavour, l, c.right, n, checks)
        BY <1>1, <1>2, <1>4, <1>7, <3>2, SubScalarComputes
      <4> QED BY <1>2, <1>3, <3>2, <4>1, <4>2 DEF OfOne, made
    <3>3. CASE c.op = "mul"
      <4>1. ScalarResult(c, checks) = MulScalar(c.flavour, l, c.right, checks)
        BY <3>3 DEF ScalarResult, l
      <4>2. OfOne(MulScalar(c.flavour, l, c.right, checks), "mul", c.flavour, l, c.right, n, checks)
        BY <1>1, <1>2, <1>4, <1>7, <3>3, MulScalarComputes
      <4> QED BY <1>2, <1>3, <3>3, <4>1, <4>2 DEF OfOne, made
    <3>4. CASE c.op = "div"
      <4>1. ScalarResult(c, checks) = DivScalar(c.flavour, l, c.right)
        BY <3>4 DEF ScalarResult, l
      <4>2. OfOne(DivScalar(c.flavour, l, c.right), "div", c.flavour, l, c.right, n, checks)
        BY <1>1, <1>2, <1>4, <1>7, <3>4, DivScalarComputes
      <4> QED BY <1>2, <1>3, <3>4, <4>1, <4>2 DEF OfOne, made
    <3>5. CASE c.op = "rem"
      <4>1. ScalarResult(c, checks) = RemScalar(c.flavour, l, c.right)
        BY <3>5 DEF ScalarResult, l
      <4>2. OfOne(RemScalar(c.flavour, l, c.right), "rem", c.flavour, l, c.right, n, checks)
        BY <1>1, <1>2, <1>4, <1>7, <3>5, RemScalarComputes
      <4> QED BY <1>2, <1>3, <3>5, <4>1, <4>2 DEF OfOne, made
    <3>6. CASE c.op = "neg"
      <4>1. ScalarResult(c, checks) = Negate(c.flavour, l, checks)
        BY <3>6 DEF ScalarResult, l
      <4>2. OfOne(Negate(c.flavour, l, checks), "neg", c.flavour, l, c.right, n, checks)
        BY <1>1, <1>2, <1>4, <1>7, <3>6, NegateComputes
      <4> QED BY <1>2, <1>3, <3>6, <4>1, <4>2 DEF OfOne, made
    <3>7. CASE c.op = "pow"
      <4>1. ScalarResult(c, checks) = CheckedPowScalar(l, c.right)
        BY <3>7 DEF ScalarResult, l
      <4>2. OfOne(CheckedPowScalar(l, c.right), "pow", "checked", l, c.right, n, checks)
        BY <1>1, <1>2, <1>4, <1>7, <3>7, PowComputes
      <4> QED BY <1>2, <1>3, <3>7, <4>1, <4>2 DEF OfOne, made
    <3> QED BY <1>1, <3>1, <3>2, <3>3, <3>4, <3>5, <3>6, <3>7 DEF Operations
  <2> QED BY <1>5, <2>1 DEF ArithmeticSays, l, n
<1> QED BY <1>6, <1>7

\* What is said of a call is what ArithmeticIsByRow says.
LEMMA ArithmeticParts ==
  ASSUME call \in ArithmeticCalls, ArithmeticSays(call, result)
  PROVE  ArithmeticIsByRow
<1> DEFINE n == Len(call.left.values)
           x(i) == ExactOf(call.op, call.left.values[i], Operands(call, n)[i])
           v(i) == Valid(BothValid(call), i)
<1>1. call.left \in Numbers /\ (call.kernel = "arithmetic" => call.right \in Numbers)
  BY ArithmeticCallIs
<1>2. n \in Nat /\ DOMAIN call.left.values = 1 .. n
  <2>1. SameLength(call.left, call.left)
    BY DEF SameLength
  <2> QED BY <1>1, <2>1, TwoNumbers
<1>3. \A i \in 1 .. n : Exact(i) = x(i)
  <2>1. \A i \in 1 .. n : Operands(call, n)[i] = Operand(i)
    BY DEF Operands, Operand
  <2>2. \A i : Exact(i) = ExactOf(call.op, call.left.values[i], Operand(i))
    BY Zenon DEF Exact, ExactOf
  <2> QED BY <2>1, <2>2, Zenon
<1>4. (call.kernel = "arithmetic" => SameLength(call.left, call.right)) => \A i \in 1 .. n : RowIsNull(i) <=> ~v(i)
  <2>1. CASE call.kernel = "arithmetic" /\ SameLength(call.left, call.right)
    <3>1. \A i \in 1 .. n : Valid(CombineValidities(call.left.validity, call.right.validity), i)
                              <=> Valid(call.left.validity, i) /\ Valid(call.right.validity, i)
      BY <1>1, <2>1, TwoNumbers
    <3> QED BY <2>1, <3>1, Zenon DEF RowIsNull, BothValid
  <2>2. CASE call.kernel # "arithmetic"
    BY <2>2, Zenon DEF RowIsNull, BothValid
  <2> QED BY <2>1, <2>2
<1>5. \A i \in 1 .. n : Promised(i) = IF RowIsNull(i) THEN Null ELSE PromiseOf(call.flavour, x(i))
  BY <1>3, Zenon DEF Promised, PromiseOf
<1> HIDE DEF n, x, v
<1>6. CASE AsPromised(result, call.op, call.flavour, call.left.values, Operands(call, n), BothValid(call), n)
           /\ (call.kernel = "arithmetic" => SameLength(call.left, call.right))
  <2>1. \A i \in 1 .. n : Promised(i) = IF v(i) THEN PromiseOf(call.flavour, x(i)) ELSE Null
    BY <1>4, <1>5, <1>6, Zenon
  <2>2. /\ result # Panic => LeafItems(IF call.flavour = "overflowing" THEN result.array ELSE result)
                               = [i \in 1 .. n |-> IF v(i) THEN PromiseOf(call.flavour, x(i)) ELSE Null]
        /\ result = Panic => call.flavour = "plain" /\ \E i \in 1 .. n : ~Fits(x(i))
        /\ call.flavour = "overflowing" /\ result # Panic => result.overflowed = [i \in 1 .. n |-> ~Fits(x(i))]
    BY <1>6 DEF AsPromised, x, v
  <2>3. RowsArePromised
    <3>1. [i \in 1 .. n |-> IF v(i) THEN PromiseOf(call.flavour, x(i)) ELSE Null] = [i \in 1 .. n |-> Promised(i)]
      BY <2>1
    <3> QED BY <1>2, <2>2, <3>1, Zenon DEF RowsArePromised
  <2>4. PanicsForAReason
    <3>1. \A i \in 1 .. n : Fits(Exact(i)) = Fits(x(i))
      BY <1>3
    <3>2. [i \in 1 .. n |-> ~Fits(x(i))] = [i \in 1 .. n |-> ~Fits(Exact(i))]
      BY <3>1
    <3>3. result = Panic => call.flavour = "plain" /\ \E i \in 1 .. n : ~Fits(Exact(i))
      BY <2>2, <3>1, Zenon
    <3> QED BY <1>2, <2>2, <3>2, <3>3, Zenon DEF PanicsForAReason
  <2> QED BY <2>3, <2>4 DEF ArithmeticIsByRow
<1>7. CASE result = Panic /\ call.kernel = "arithmetic" /\ ~SameLength(call.left, call.right)
  BY <1>7, Zenon DEF ArithmeticIsByRow, RowsArePromised, PanicsForAReason
<1>8. CASE result = Panic /\ call.flavour = "plain" /\ call.right = 0 /\ call.op \in {"div", "rem"}
  BY <1>8, Zenon DEF ArithmeticIsByRow, RowsArePromised, PanicsForAReason
<1> QED BY <1>6, <1>7, <1>8 DEF ArithmeticSays, n

\* A kernel of arithmetic gives each row the exact result of its operands, or what the
\* flavour of the kernel makes of an overflow, and panics for a reason.
THEOREM ArithmeticByRow == ArithmeticSpec => []ArithmeticIsByRow
<1> DEFINE ArithmeticInv == call \in ArithmeticCalls /\ (result # NoResult => ArithmeticSays(call, result))
<1>1. KernelInit /\ call \in ArithmeticCalls => ArithmeticInv
  BY DEF KernelInit
<1>2. ArithmeticInv /\ [ArithmeticNext]_kvars => ArithmeticInv'
  <2> SUFFICES ASSUME ArithmeticInv, [ArithmeticNext]_kvars PROVE ArithmeticInv'
    OBVIOUS
  <2>1. CASE OperateArrays
    <3>1. PICK checks \in BOOLEAN : call' = call /\ call.kernel = "arithmetic" /\ result' = ArrayResult(call, checks)
      BY <2>1, Zenon DEF OperateArrays, Returns
    <3>2. ArithmeticSays(call, ArrayResult(call, checks))
      BY <3>1, ArraysAnswer
    <3> QED BY <3>1, <3>2
  <2>2. CASE OperateScalar
    <3>1. PICK checks \in BOOLEAN : call' = call /\ call.kernel = "arithmetic_scalar" /\ result' = ScalarResult(call, checks)
      BY <2>2, Zenon DEF OperateScalar, Returns
    <3>2. ArithmeticSays(call, ScalarResult(call, checks))
      BY <3>1, ScalarAnswers
    <3> QED BY <3>1, <3>2
  <2>3. CASE UNCHANGED kvars
    BY <2>3 DEF kvars
  <2> QED BY <2>1, <2>2, <2>3 DEF ArithmeticNext
<1>3. ArithmeticInv => ArithmeticIsByRow
  <2>1. CASE result = NoResult
    BY <2>1, Zenon DEF ArithmeticIsByRow, RowsArePromised, PanicsForAReason, ArithmeticAnswered, Answered
  <2>2. CASE result # NoResult
    BY <2>2, ArithmeticParts
  <2> QED BY <2>1, <2>2
<1> QED BY <1>1, <1>2, <1>3, PTL DEF ArithmeticSpec
============================================================================

------------------------------ MODULE Selections ------------------------------
(***************************************************************************)
(* The kernels that choose rows of arrays (src/src/compute): take, filter, *)
(* if_then_else, concatenate, limit and shift.  Filters of primitives are  *)
(* made by lanes, takes item by item, the others are grown from ranges of  *)
(* rows (module Growables).                                                *)
(***************************************************************************)
EXTENDS Arithmetics

LOCAL INSTANCE SequencesExt
LOCAL INSTANCE FiniteSetsExt

CONSTANT Lanes   \* the items of a SIMD register

ASSUME LanesAssumption == Lanes \in Nat \ {0}

\* The items of s whose bit is set.
Picked(s, bits) ==
  LET at == SetToSortSeq({i \in DOMAIN s : bits[i]}, <)
  IN  [k \in DOMAIN at |-> s[at[k]]]

\* The runs of set bits (module SlicesIterator), each << start, len >>.
Runs(bits) ==
  LET Starts == {i \in DOMAIN bits : bits[i] /\ (i = 1 \/ ~bits[i - 1])}
      End(i) == CHOOSE j \in i .. Len(bits) :
                  (\A k \in i .. j : bits[k]) /\ (j = Len(bits) \/ ~bits[j + 1])
      at == SetToSortSeq(Starts, <)
  IN  [n \in DOMAIN at |-> << at[n] - 1, End(at[n]) - at[n] + 1 >>]

\* An array grown from pieces << source, start, len >>, of nulls if the source is 0.
Grown(arrays, pieces) ==
  LET Piece(p) == IF p[1] = 0 THEN Repeat(Null, p[3]) ELSE SubSeq(Rows(arrays[p[1]]), p[2] + 1, p[2] + p[3])
      Outside(p) == p[1] # 0 /\ p[2] + p[3] > Len(Rows(arrays[p[1]]))
  IN  IF \E n \in DOMAIN pieces : Outside(pieces[n]) THEN Panic
      ELSE FlattenSeq([n \in DOMAIN pieces |-> Piece(pieces[n])])
-----------------------------------------------------------------------------
(* take: indices are an array of integers, from 0 *)

Indices(idx) == [i \in DOMAIN idx.values |-> idx.values[i] + 1]

\* A bit behind the length is read if the last byte has it.
BitOf(bits, spare, i) ==
  IF i <= Len(bits) THEN bits[i] ELSE IF i <= Len(bits) + Len(spare) THEN spare[i - Len(bits)] ELSE Panic

TakeBits(bits, spare, idx) ==
  LET at == Indices(idx) IN [i \in DOMAIN at |-> BitOf(bits, spare, at[i])]

ItemOf(values, i) == IF i \in DOMAIN values THEN values[i] ELSE Panic

\* A bug: the default stands in for any index out of range.
TakeIndicesUnchecked(values, idx, default) ==
  LET at == Indices(idx)
  IN  [i \in DOMAIN at |-> IF at[i] \in DOMAIN values THEN values[at[i]] ELSE default]

\* Only the indices have nulls: one out of range is the default if it is null.
TakeIndicesValidity(values, idx, default) ==
  LET at == Indices(idx)
  IN  [i \in DOMAIN at |->
         IF at[i] \in DOMAIN values THEN values[at[i]] ELSE IF Valid(idx.validity, i) THEN Panic ELSE default]

\* Both have: null indices are not looked at.
TakeValuesIndicesValidity(Item(_), idx, default) ==
  LET at == Indices(idx)
  IN  [i \in DOMAIN at |-> IF Valid(idx.validity, i) THEN Item(at[i]) ELSE default]

\* The values and the validity, by which of the two has nulls.
TakenValues(a, idx, Item(_), default) ==
  LET at == Indices(idx)
  IN  CASE NullsOf(idx) = {} -> [i \in DOMAIN at |-> Item(at[i])]
        [] NullsOf(a) = {} -> TakeIndicesValidity(a.values, idx, default)
        [] OTHER -> TakeValuesIndicesValidity(Item, idx, default)

Panics(s) == s # NoValidity /\ \E i \in DOMAIN s : s[i] = Panic
SomeBits(bits) == IF Panics(bits) THEN bits ELSE OptionalBits(bits)

TakenValidity(a, spare, idx) ==
  CASE NullsOf(a) = {} -> IF NullsOf(idx) = {} THEN NoValidity ELSE idx.validity
    [] NullsOf(idx) = {} -> SomeBits(TakeBits(a.validity, spare, idx))
    [] OTHER -> SomeBits(TakeValuesIndicesValidity(LAMBDA i : BitOf(a.validity, spare, i), idx, FALSE))

TakePrimitive(a, spare, idx) ==
  LET values == TakenValues(a, idx, LAMBDA i : ItemOf(a.values, i), 0)
      bits == TakenValidity(a, spare, idx)
  IN  IF Panics(values) \/ Panics(bits) THEN Panic ELSE PrimitiveOf(values, bits)

TakeBoolean(a, spare, idx) ==
  LET values == TakenValues(a, idx, LAMBDA i : BitOf(a.values, spare, i), FALSE)
      bits == TakenValidity(a, spare, idx)
  IN  IF Panics(values) \/ Panics(bits) THEN Panic ELSE BooleanOf(values, bits)

\* Items of strings: an index out of range is an empty item if only the indices have nulls.
TakeStrings(a, spare, idx) ==
  LET items == [i \in 1 .. LeafLength(a) |-> LeafValue(a, i)]
      at == Indices(idx)
      bits == TakenValidity(a, spare, idx)
      taken == CASE Panics(bits) -> bits
                 [] NullsOf(idx) = {} -> [i \in DOMAIN at |-> ItemOf(items, at[i])]
                 [] NullsOf(a) = {} ->
                      [i \in DOMAIN at |-> IF at[i] \in DOMAIN items THEN items[at[i]] ELSE << >>]
                 [] OTHER -> [i \in DOMAIN at |-> IF Valid(bits, i) THEN ItemOf(items, at[i]) ELSE << >>]
      ends == FoldLeft(LAMBDA os, item : Append(os, Last(os) + Len(item)), << 0 >>, taken)
  IN  IF Panics(taken) THEN Panic
      ELSE [kind |-> a.kind, values |-> FlattenSeq(taken), offsets |-> ends, validity |-> bits]

TakeLeaf(a, spare, idx) ==
  CASE a.kind = "primitive" -> TakePrimitive(a, spare, idx)
    [] a.kind = "boolean" -> TakeBoolean(a, spare, idx)
    [] Lengthy(a) -> TakeStrings(a, spare, idx)

\* Every index, null or not, is sliced first.
TakeList(a, idx) ==
  LET at == Indices(idx)
  IN  IF \E i \in DOMAIN at : at[i] > ArrayLength(a) THEN Panic
      ELSE Grown(<< a >>, [i \in DOMAIN at |->
             IF Valid(idx.validity, i) THEN << 1, at[i] - 1, 1 >> ELSE << 0, 0, 1 >>])

TakeDictionary(a, spare, idx) ==
  LET keys == TakePrimitive(a.leaves[1], spare, idx)
  IN  IF keys = Panic THEN Panic ELSE Rows([a EXCEPT !.leaves[1] = keys])

TakeStructValidity(bits, spare, idx) ==
  CASE bits = NoValidity -> idx.validity
    [] idx.validity = NoValidity -> SomeBits(TakeBits(bits, spare, idx))
    [] OTHER -> SomeBits(TakeValuesIndicesValidity(LAMBDA i : BitOf(bits, spare, i), idx, FALSE))

TakeStruct(a, spare, idx) ==
  LET leaves == [n \in DOMAIN a.leaves |-> TakeLeaf(a.leaves[n], spare, idx)]
      bits == TakeStructValidity(a.validity, spare, idx)
  IN  IF (\E n \in DOMAIN leaves : leaves[n] = Panic) \/ Panics(bits) THEN Panic
      ELSE Rows([a EXCEPT !.leaves = leaves, !.validity = bits])

\* The rows taken.
Take(a, spare, idx) ==
  CASE LeafLength(idx) = 0 -> << >>
    [] a.kind \in LeafKinds \ {"bytes"} ->
         (LET leaf == TakeLeaf(a.leaves[1], spare, idx) IN IF leaf = Panic THEN Panic ELSE LeafItems(leaf))
    [] a.kind = "dictionary" -> TakeDictionary(a, spare, idx)
    [] a.kind = "struct" -> TakeStruct(a, spare, idx)
    [] a.kind = "list" -> TakeList(a, idx)
    [] OTHER -> Unsupported
-----------------------------------------------------------------------------
(* filter *)

\* The items of full lanes, at once if all are set, and those of the remainder.
ByLanes(s, mask) ==
  LET n == Len(s) \div Lanes
      Lane(q, k) == SubSeq(q, (k - 1) * Lanes + 1, k * Lanes)
      Left(q) == SubSeq(q, n * Lanes + 1, Len(q))
  IN  FlattenSeq([k \in 1 .. n |->
        IF \A i \in 1 .. Lanes : Lane(mask, k)[i] THEN Lane(s, k) ELSE Picked(Lane(s, k), Lane(mask, k))])
      \o Picked(Left(s), Left(mask))

FilterPrimitive(a, mask) ==
  IF Len(a.values) # Len(mask) THEN Panic
  ELSE LeafItems(PrimitiveOf(ByLanes(a.values, mask),
                             IF a.validity = NoValidity THEN NoValidity ELSE OptionalBits(ByLanes(a.validity, mask))))

FilterGrowable(a, mask) ==
  LET runs == Runs(mask) IN Grown(<< a >>, [n \in DOMAIN runs |-> << 1, runs[n][1], runs[n][2] >>])

\* A filter for many arrays knows nothing of the nulls of the mask.
BuildFilter(a, mask) == FilterGrowable(a, mask.values)

MaskOf(mask) ==
  IF mask.validity = NoValidity THEN mask.values
  ELSE [i \in DOMAIN mask.values |-> mask.values[i] /\ mask.validity[i]]

Filter(a, mask) ==
  LET bits == MaskOf(mask)
      Same == Len(Rows(a)) = Len(bits)
  IN  CASE \A i \in DOMAIN bits : ~bits[i] -> IF Same THEN << >> ELSE Panic
        [] \A i \in DOMAIN bits : bits[i] -> IF Same THEN Rows(a) ELSE Panic
        [] a.kind = "primitive" -> FilterPrimitive(a.leaves[1], bits)
        [] OTHER -> FilterGrowable(a, bits)

\* The arrays of a chunk are as long as each other.
FilterChunk(arrays, mask) ==
  LET filtered == [n \in DOMAIN arrays |->
                     IF Len(arrays) = 1 THEN Filter(arrays[n], mask) ELSE BuildFilter(arrays[n], mask)]
  IN  IF \E n \in DOMAIN filtered : filtered[n] = Panic THEN Panic ELSE filtered
-----------------------------------------------------------------------------
(* if_then_else, concatenate, limit, shift *)

\* The runs of set bits from the first array, what is between them from the second.
Alternating(bits) ==
  LET runs == Runs(bits)
      End(n) == IF n = 0 THEN 0 ELSE runs[n][1] + runs[n][2]
      BeforeRun(n) == << 2, End(n - 1), runs[n][1] - End(n - 1) >>
      last == End(Len(runs))
  IN  FlattenSeq([n \in DOMAIN runs |-> << BeforeRun(n), << 1, runs[n][1], runs[n][2] >> >>])
      \o << << 2, last, Len(bits) - last >> >>

IfThenElse(predicate, l, r) ==
  LET n == LeafLength(predicate)
      each == [i \in 1 .. n |->
                CASE ~Valid(predicate.validity, i) -> << 0, i - 1, 1 >>
                  [] predicate.values[i] -> << 1, i - 1, 1 >>
                  [] OTHER -> << 2, i - 1, 1 >>]
  IN  IF l.kind # r.kind \/ Len(Rows(l)) # Len(Rows(r)) \/ Len(Rows(l)) # n THEN Refused
      ELSE Grown(<< l, r >>, IF NullsOf(predicate) # {} THEN each ELSE Alternating(predicate.values))

Concatenate(arrays) ==
  IF arrays = << >> \/ \E n \in DOMAIN arrays : arrays[n].kind # arrays[1].kind THEN Refused
  ELSE Grown(arrays, [n \in DOMAIN arrays |-> << n, 0, Len(Rows(arrays[n])) >>])

Limit(a, n) == SubSeq(Rows(a), 1, Min({n, Len(Rows(a))}))

\* Forward if the offset is positive; the least integer has no absolute.
Shift(a, offset, checks) ==
  LET length == Len(Rows(a)) - Abs(offset)
      start == IF offset < 0 THEN -offset ELSE 0
      slice == << 1, start, length >>
      nulls == << 0, 0, Abs(offset) >>
  IN  CASE offset = MinInt /\ checks -> Panic
        [] offset = MinInt \/ length < 0 -> Refused
        [] OTHER -> Grown(<< a >>, IF offset > 0 THEN << nulls, slice >> ELSE << slice, nulls >>)
-----------------------------------------------------------------------------
TakeRows == Returns("take", Take(call.array, call.spare, call.indices))
FilterRows == Returns("filter", Filter(call.array, call.mask))
FilterColumns == Returns("filter_chunk", FilterChunk(call.arrays, call.mask))
ChooseRows == Returns("if_then_else", IfThenElse(call.mask, call.left, call.right))
JoinArrays == Returns("concatenate", Concatenate(call.arrays))
LimitRows == Returns("limit", Limit(call.array, call.offset))
ShiftRows == \E checks \in BOOLEAN : Returns("shift", Shift(call.array, call.offset, checks))

SelectionNext ==
  \/ TakeRows \/ FilterRows \/ FilterColumns \/ ChooseRows \/ JoinArrays \/ LimitRows \/ ShiftRows
-----------------------------------------------------------------------------
\* The row of an index, if there is one.
RowOfIndex(rows, idx, i) ==
  IF Valid(idx.validity, i) THEN rows[idx.values[i] + 1] ELSE Null

\* Row i of what is taken is the row of index i, or null if the index is, whatever
\* is behind a null; only an index out of range fails -- for lists one behind a null
\* too --, unless it is read as an empty string or as a bit behind the bitmap.
TakeIsByIndex ==
  Answered("take") /\ result # Unsupported =>
    LET rows == Rows(call.array)
        idx == call.indices
        Out(i) == Valid(idx.validity, i) /\ idx.values[i] >= Len(rows)
        out == {i \in DOMAIN idx.values : Out(i)}
    IN  /\ result # Panic =>
             /\ Len(result) = LeafLength(idx)
             /\ \A i \in DOMAIN result \ out : result[i] = RowOfIndex(rows, idx, i)
        /\ out # {} /\ call.array.kind \in {"primitive", "list", "dictionary"} => result = Panic
        /\ out = {} /\ call.array.kind # "list" => result # Panic
        /\ out = {} /\ NullsOf(idx) = {} => result # Panic

\* A filter keeps the rows where the mask is true, in their order; a null of the mask
\* is false, but for chunks of several columns.
FilterKeepsTheTrue ==
  /\ Answered("filter") /\ Len(Rows(call.array)) = LeafLength(call.mask) =>
       result = Picked(Rows(call.array), MaskOf(call.mask))
  /\ Answered("filter") /\ Len(Rows(call.array)) # LeafLength(call.mask) =>
       \/ result = Panic
       \/ call.array.kind # "primitive" /\ IsPrefix(result, Picked(Rows(call.array),
            [i \in DOMAIN Rows(call.array) |-> i <= LeafLength(call.mask) /\ MaskOf(call.mask)[i]]))
  /\ Answered("filter_chunk") =>
       LET bits == IF Len(call.arrays) = 1 THEN MaskOf(call.mask) ELSE call.mask.values
       IN  \/ \E n \in DOMAIN call.arrays : Len(Rows(call.arrays[n])) # Len(bits)
           \/ result = [n \in DOMAIN call.arrays |-> Picked(Rows(call.arrays[n]), bits)]

\* if_then_else takes each row of one of the arrays, and null if the predicate is;
\* the runs it copies neither overlap nor leave rows out.
ChosenIsByRow ==
  Answered("if_then_else") /\ result # Refused =>
    result = [i \in 1 .. LeafLength(call.mask) |->
                CASE LeafItems(call.mask)[i] = Null -> Null
                  [] LeafItems(call.mask)[i] = TRUE -> Rows(call.left)[i]
                  [] OTHER -> Rows(call.right)[i]]

\* Row i of a shifted array is row i - offset, and null where there is none.
ShiftedIsMoved ==
  Answered("shift") =>
    LET rows == Rows(call.array)
        n == Len(rows)
    IN  IF Abs(call.offset) > n THEN result \in {Refused, Panic}
        ELSE result = [i \in 1 .. n |-> IF i - call.offset \in 1 .. n THEN rows[i - call.offset] ELSE Null]

\* What the kernels that choose rows give is row by row what they are asked for.
SelectionsAreByRow == TakeIsByIndex /\ FilterKeepsTheTrue /\ ChosenIsByRow /\ ShiftedIsMoved
=============================================================================

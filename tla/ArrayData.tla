----------------------------- MODULE ArrayData -----------------------------
(***************************************************************************)
(* The data of an array (src/src/array): values, offsets and a validity,   *)
(* its own or of its children.  A leaf is an array without children.  Here *)
(* an array is a leaf, or its children are leaves.                         *)
(***************************************************************************)
EXTENDS Naturals, Sequences

LOCAL INSTANCE SequencesExt

CONSTANTS
  Null,        \* a null item
  NoValidity,  \* the validity of an array that has had no null
  Size,        \* of a fixed-size list, and of a fixed-size binary item
  MaxOffset,   \* the largest offset, O::MAX
  MaxKey,      \* the largest key of a dictionary
  MaxLength    \* bound: the items of an array being built

ASSUME ArrayDataAssumption ==
  /\ Size \in Nat \ {0} /\ MaxOffset \in Nat /\ MaxKey \in Nat /\ MaxLength \in Nat
  /\ NoValidity \notin Seq(BOOLEAN)

Repeat(x, n) == [i \in 1 .. n |-> x]
Valid(bits, i) == bits = NoValidity \/ (i <= Len(bits) /\ bits[i])
Monotone(os) == \A i \in 1 .. Len(os) - 1 : os[i] <= os[i + 1]
-----------------------------------------------------------------------------
LeafKinds == {"primitive", "boolean", "bytes", "utf8", "binary"}
Lengthy(leaf) == leaf.kind \in {"utf8", "binary"}

EmptyLeaf(k) ==
  [kind |-> k, values |-> << >>, validity |-> NoValidity,
   offsets |-> IF k \in {"utf8", "binary"} THEN << 0 >> ELSE << >>]

LeafLength(leaf) ==
  CASE Lengthy(leaf) -> Len(leaf.offsets) - 1
    [] leaf.kind = "bytes" -> Len(leaf.values) \div Size
    [] OTHER -> Len(leaf.values)

LeafValue(leaf, i) ==
  CASE Lengthy(leaf) -> SubSeq(leaf.values, leaf.offsets[i] + 1, leaf.offsets[i + 1])
    [] leaf.kind = "bytes" -> SubSeq(leaf.values, (i - 1) * Size + 1, i * Size)
    [] OTHER -> leaf.values[i]

LeafItems(leaf) ==
  [i \in 1 .. LeafLength(leaf) |-> IF Valid(leaf.validity, i) THEN LeafValue(leaf, i) ELSE Null]

\* What the constructors of leaf arrays check.
Consistent(leaf) ==
  /\ leaf.validity # NoValidity => Len(leaf.validity) = LeafLength(leaf)
  /\ leaf.kind = "bytes" => Len(leaf.values) % Size = 0
  /\ Lengthy(leaf) => Last(leaf.offsets) <= Len(leaf.values)
-----------------------------------------------------------------------------
(* An array: kind; leaves, of which a leaf array has itself, a dictionary its keys *)
(* and its values; offsets and validity if it has children; types of a union.      *)

ArrayLength(a) ==
  CASE a.kind = "list" -> Len(a.offsets) - 1
    [] a.kind = "fixed" -> LeafLength(a.leaves[1]) \div Size
    [] a.kind \in {"dense", "sparse"} -> Len(a.types)
    [] OTHER -> LeafLength(a.leaves[1])

RowAt(a, i) ==
  LET first == LeafItems(a.leaves[1])
      second == LeafItems(a.leaves[2])
  IN  CASE a.kind = "list" -> SubSeq(first, a.offsets[i] + 1, a.offsets[i + 1])
        [] a.kind = "fixed" -> SubSeq(first, (i - 1) * Size + 1, i * Size)
        [] a.kind = "struct" -> << first[i], second[i] >>
        [] a.kind = "dictionary" -> IF first[i] = Null THEN Null ELSE second[first[i] + 1]
        [] a.kind = "sparse" -> LeafItems(a.leaves[a.types[i] + 1])[i]
        [] a.kind = "dense" -> LeafItems(a.leaves[a.types[i] + 1])[a.offsets[i] + 1]

\* The items of an array, one by one.
Rows(a) ==
  IF a.kind \in LeafKinds THEN LeafItems(a.leaves[1])
  ELSE [i \in 1 .. ArrayLength(a) |-> IF Valid(a.validity, i) THEN RowAt(a, i) ELSE Null]

\* The keys of a dictionary, those of nulls too, have values.
KeysHaveValues(a) ==
  \A i \in 1 .. ArrayLength(a) : a.leaves[1].values[i] < LeafLength(a.leaves[2])

\* What the constructors of arrays with children check, not counting the keys.
Accepted(a) ==
  /\ \A n \in 1 .. Len(a.leaves) : Consistent(a.leaves[n])
  /\ a.validity # NoValidity => Len(a.validity) = ArrayLength(a)
  /\ a.kind = "list" => Last(a.offsets) <= LeafLength(a.leaves[1])
  /\ a.kind = "fixed" => LeafLength(a.leaves[1]) % Size = 0
  /\ a.kind = "struct" => LeafLength(a.leaves[1]) = LeafLength(a.leaves[2])
=============================================================================

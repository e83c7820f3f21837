------------------------------ MODULE ArrayViews ------------------------------
(***************************************************************************)
(* Arrays as the program has them (src/src/array): a tree of buffers, each *)
(* a window into a region of memory that others may share.  What an array  *)
(* of each kind holds, how it is sliced, what its constructor checks and   *)
(* which array stands for nothing but nulls, or for no rows.               *)
(***************************************************************************)
EXTENDS ArrayData, TLC

LOCAL INSTANCE SequencesExt

CONSTANT NoOwner  \* of a buffer whose region is a vector of the program's own

VARIABLE heap  \* region -> what it holds

\* A Buffer or a Bitmap: an offset and a length, in items, of a region.
Buffer(r, o, n)      == [region |-> r, offset |-> o, length |-> n, owner |-> NoOwner]
SliceBuffer(b, o, n) == [b EXCEPT !.offset = @ + o, !.length = n]
Data(b)              == SubSeq(heap[b.region], b.offset + 1, b.offset + b.length)

\* An array: its buffers by name, its children, and the offset a union keeps.
Node(k, parts, children) == [kind |-> k, parts |-> parts, children |-> children, offset |-> 0]
Has(a, p) == p \in DOMAIN a.parts

\* Whether its first part is bytes between offsets, or one item after another.
IsText(a)  == a.kind \in {"utf8", "binary"}
IsLists(a) == a.kind \in {"list", "map"}
IsUnion(a) == a.kind \in {"sparse", "dense"}

RECURSIVE LengthOf(_)
LengthOf(a) ==
  CASE a.kind \in {"primitive", "boolean"} -> a.parts.values.length
    [] IsText(a) \/ IsLists(a)             -> a.parts.offsets.length - 1
    [] a.kind = "bytes"                    -> a.parts.values.length \div Size
    [] a.kind = "fixed"                    -> LengthOf(a.children[1]) \div Size
    [] IsUnion(a)                          -> a.parts.types.length
    [] OTHER                               -> LengthOf(a.children[1])
-----------------------------------------------------------------------------
(* slice_unchecked.  The rows of lists, texts and dictionaries stay where they are. *)

SlicedPart(a, p, o, n) == IF Has(a, p) THEN [a EXCEPT !.parts[p] = SliceBuffer(@, o, n)] ELSE a
SlicedBits(a, o, n) == SlicedPart(a, "validity", o, n)

SlicePrimitive(a, o, n)       == SlicedPart(SlicedBits(a, o, n), "values", o, n)
SliceBoolean(a, o, n)         == SlicedPart(SlicedBits(a, o, n), "values", o, n)
SliceFixedSizeBinary(a, o, n) == SlicedPart(SlicedBits(a, o, n), "values", o * Size, n * Size)
SliceUtf8(a, o, n)            == SlicedPart(SlicedBits(a, o, n), "offsets", o, n + 1)
SliceBinary(a, o, n)          == SlicedPart(SlicedBits(a, o, n), "offsets", o, n + 1)
SliceList(a, o, n)            == SlicedPart(SlicedBits(a, o, n), "offsets", o, n + 1)
SliceMap(a, o, n)             == SlicedPart(SlicedBits(a, o, n), "offsets", o, n + 1)
SliceDictionary(a, o, n)      == [a EXCEPT !.children[1] = SlicePrimitive(@, o, n)]
SliceUnion(a, o, n) ==
  [SlicedPart(SlicedPart(a, "types", o, n), "offsets", o, n) EXCEPT !.offset = @ + o]

RECURSIVE SliceOf(_, _, _)
SliceFixedSizeList(a, o, n) ==
  [SlicedBits(a, o, n) EXCEPT !.children[1] = SliceOf(@, o * Size, n * Size)]
SliceStruct(a, o, n) ==
  [SlicedBits(a, o, n) EXCEPT !.children = [c \in DOMAIN @ |-> SliceOf(@[c], o, n)]]

SliceOf(a, o, n) ==
  CASE a.kind = "primitive"  -> SlicePrimitive(a, o, n)
    [] a.kind = "boolean"    -> SliceBoolean(a, o, n)
    [] a.kind = "bytes"      -> SliceFixedSizeBinary(a, o, n)
    [] a.kind = "utf8"       -> SliceUtf8(a, o, n)
    [] a.kind = "binary"     -> SliceBinary(a, o, n)
    [] a.kind = "list"       -> SliceList(a, o, n)
    [] a.kind = "map"        -> SliceMap(a, o, n)
    [] a.kind = "fixed"      -> SliceFixedSizeList(a, o, n)
    [] a.kind = "struct"     -> SliceStruct(a, o, n)
    [] a.kind = "dictionary" -> SliceDictionary(a, o, n)
    [] IsUnion(a)            -> SliceUnion(a, o, n)
-----------------------------------------------------------------------------
(* What is in row i, whether or not the validity hides it. *)

\* A dictionary's validity is that of its keys; a union has none.
ValidityPart(a) ==
  IF a.kind = "dictionary" THEN a.children[1].parts
  ELSE a.parts
HasBits(a)     == "validity" \in DOMAIN ValidityPart(a)
IsValidAt(a, i) == HasBits(a) => Data(ValidityPart(a).validity)[i]

TextAt(a, i) ==
  LET os == Data(a.parts.offsets) IN SubSeq(Data(a.parts.values), os[i] + 1, os[i + 1])
FixedBytesAt(a, i) == SubSeq(Data(a.parts.values), (i - 1) * Size + 1, i * Size)

\* field_slot: where row i of a union is in the field of its type.
FieldSlot(a, i) == IF Has(a, "offsets") THEN Data(a.parts.offsets)[i] + 1 ELSE i + a.offset

RECURSIVE RowsOf(_)
ListAt(a, i) ==
  LET os == Data(a.parts.offsets) IN RowsOf(SliceOf(a.children[1], os[i], os[i + 1] - os[i]))
FixedListAt(a, i)  == RowsOf(SliceOf(a.children[1], (i - 1) * Size, Size))
FieldsAt(a, i)     == [c \in DOMAIN a.children |-> RowsOf(a.children[c])[i]]
DictionaryAt(a, i) == RowsOf(a.children[2])[Data(a.children[1].parts.values)[i] + 1]
UnionAt(a, i)      == RowsOf(a.children[Data(a.parts.types)[i] + 1])[FieldSlot(a, i)]

InRow(a, i) ==
  CASE a.kind \in {"primitive", "boolean"} -> Data(a.parts.values)[i]
    [] IsText(a)             -> TextAt(a, i)
    [] a.kind = "bytes"      -> FixedBytesAt(a, i)
    [] IsLists(a)            -> ListAt(a, i)
    [] a.kind = "fixed"      -> FixedListAt(a, i)
    [] a.kind = "struct"     -> FieldsAt(a, i)
    [] a.kind = "dictionary" -> DictionaryAt(a, i)
    [] IsUnion(a)            -> UnionAt(a, i)

RowsOf(a) == [i \in 1 .. LengthOf(a) |-> IF IsValidAt(a, i) THEN InRow(a, i) ELSE Null]
-----------------------------------------------------------------------------
(* What try_new checks, and new panics without. *)

BitsFit(a) == Has(a, "validity") => a.parts.validity.length = LengthOf(a)

OffsetsFit(a, n) ==
  LET os == Data(a.parts.offsets) IN os # << >> /\ Monotone(os) /\ os[Len(os)] <= n

PrimitiveFits(a)       == BitsFit(a)
BooleanFits(a)         == BitsFit(a)
FixedSizeBinaryFits(a) == a.parts.values.length % Size = 0 /\ BitsFit(a)
Utf8Fits(a)            == OffsetsFit(a, a.parts.values.length) /\ BitsFit(a)
BinaryFits(a)          == OffsetsFit(a, a.parts.values.length) /\ BitsFit(a)
ListFits(a)            == OffsetsFit(a, LengthOf(a.children[1])) /\ BitsFit(a)
MapFits(a)             == OffsetsFit(a, LengthOf(a.children[1])) /\ BitsFit(a) /\ a.children[1].kind = "struct"
FixedSizeListFits(a)   == LengthOf(a.children[1]) % Size = 0 /\ BitsFit(a)
StructFits(a) ==
  /\ a.children # << >>
  /\ \A c \in DOMAIN a.children : LengthOf(a.children[c]) = LengthOf(a.children[1])
  /\ BitsFit(a)
DictionaryFits(a) ==
  \A key \in Range(Data(a.children[1].parts.values)) : key < LengthOf(a.children[2])
UnionFits(a) == Has(a, "offsets") <=> a.kind = "dense"

RECURSIVE IsAccepted(_)
IsAccepted(a) ==
  /\ CASE a.kind = "primitive"  -> PrimitiveFits(a)
       [] a.kind = "boolean"    -> BooleanFits(a)
       [] a.kind = "bytes"      -> FixedSizeBinaryFits(a)
       [] a.kind = "utf8"       -> Utf8Fits(a)
       [] a.kind = "binary"     -> BinaryFits(a)
       [] a.kind = "list"       -> ListFits(a)
       [] a.kind = "map"        -> MapFits(a)
       [] a.kind = "fixed"      -> FixedSizeListFits(a)
       [] a.kind = "struct"     -> StructFits(a)
       [] a.kind = "dictionary" -> DictionaryFits(a)
       [] IsUnion(a)            -> UnionFits(a)
  /\ \A c \in DOMAIN a.children : IsAccepted(a.children[c])
-----------------------------------------------------------------------------
(***************************************************************************)
(* Arrays of vectors of their own: what new_null and new_empty of each     *)
(* kind make.  A type is [kind, children].  An array under construction    *)
(* has its vectors in it, each with a number: of two parts with the same   *)
(* number one is a clone of the other; a part may start behind the start.  *)
(***************************************************************************)
\* The parts of an array under construction.
ItemsPart(s)   == "values" :> [vector |-> 1, items |-> s, from |-> 0]
OffsetsPart(s) == "offsets" :> [vector |-> 2, items |-> s, from |-> 0]
TypesPart(s)   == "types" :> [vector |-> 3, items |-> s, from |-> 0]
BitsPart(s)    == "validity" :> [vector |-> 4, items |-> s, from |-> 0]
NoParts        == << >>
Zeros(n)       == Repeat(0, n)
Unset(n)       == BitsPart(Repeat(FALSE, n))

\* Its vectors become regions, named for its path from the top, and it buffers of them.
RECURSIVE Placed(_, _)
Placed(a, path) ==
  Node(a.kind,
       [p \in DOMAIN a.parts |->
          LET v == a.parts[p] IN Buffer(<< path, v.vector >>, v.from, Len(v.items) - v.from)],
       [c \in DOMAIN a.children |-> Placed(a.children[c], 10 * path + c)])

RECURSIVE Vectors(_, _)
Vectors(a, path) ==
  FoldLeft(LAMBDA h, c : h @@ Vectors(a.children[c], 10 * path + c),
           [r \in {<< path, a.parts[p].vector >> : p \in DOMAIN a.parts} |->
              a.parts[CHOOSE p \in DOMAIN a.parts : a.parts[p].vector = r[2]].items],
           [c \in DOMAIN a.children |-> c])
-----------------------------------------------------------------------------
(* No rows.  A text or a list has one offset for them. *)

NewEmptyPrimitive       == Node("primitive", ItemsPart(<< >>), << >>)
NewEmptyBoolean         == Node("boolean", ItemsPart(<< >>), << >>)
NewEmptyFixedSizeBinary == Node("bytes", ItemsPart(<< >>), << >>)
NewEmptyUtf8            == Node("utf8", OffsetsPart(Zeros(1)) @@ ItemsPart(<< >>), << >>)
NewEmptyBinary          == Node("binary", OffsetsPart(Zeros(1)) @@ ItemsPart(<< >>), << >>)

RECURSIVE NewEmpty(_)
NewEmptyList(t)          == Node("list", OffsetsPart(Zeros(1)), << NewEmpty(t.children[1]) >>)
NewEmptyMap(t)           == Node("map", OffsetsPart(Zeros(1)), << NewEmpty(t.children[1]) >>)
NewEmptyFixedSizeList(t) == Node("fixed", NoParts, << NewEmpty(t.children[1]) >>)
NewEmptyStruct(t)        == Node("struct", NoParts, [c \in DOMAIN t.children |-> NewEmpty(t.children[c])])
NewEmptyDictionary(t)    == Node("dictionary", NoParts, << NewEmptyPrimitive, NewEmpty(t.children[2]) >>)
NewEmptyUnion(t) ==
  Node(t.kind, TypesPart(<< >>) @@ (IF t.kind = "dense" THEN OffsetsPart(<< >>) ELSE NoParts),
       [c \in DOMAIN t.children |-> NewEmpty(t.children[c])])

NewEmpty(t) ==
  CASE t.kind = "primitive"  -> NewEmptyPrimitive
    [] t.kind = "boolean"    -> NewEmptyBoolean
    [] t.kind = "bytes"      -> NewEmptyFixedSizeBinary
    [] t.kind = "utf8"       -> NewEmptyUtf8
    [] t.kind = "binary"     -> NewEmptyBinary
    [] t.kind = "list"       -> NewEmptyList(t)
    [] t.kind = "map"        -> NewEmptyMap(t)
    [] t.kind = "fixed"      -> NewEmptyFixedSizeList(t)
    [] t.kind = "struct"     -> NewEmptyStruct(t)
    [] t.kind = "dictionary" -> NewEmptyDictionary(t)
    [] IsUnion(t)            -> NewEmptyUnion(t)
-----------------------------------------------------------------------------
(* n nulls.  The values and the validity of a boolean are one vector; a union takes *)
(* every row from its first field.                                                  *)

NewNullPrimitive(n)       == Node("primitive", ItemsPart(Zeros(n)) @@ Unset(n), << >>)
NewNullBoolean(n) ==
  LET bitmap == [vector |-> 1, items |-> Repeat(FALSE, n), from |-> 0]
  IN  Node("boolean", ("values" :> bitmap) @@ ("validity" :> bitmap), << >>)
NewNullFixedSizeBinary(n) == Node("bytes", ItemsPart(Zeros(n * Size)) @@ Unset(n), << >>)
NewNullUtf8(n)            == Node("utf8", OffsetsPart(Zeros(n + 1)) @@ ItemsPart(<< >>) @@ Unset(n), << >>)
NewNullBinary(n)          == Node("binary", OffsetsPart(Zeros(n + 1)) @@ ItemsPart(<< >>) @@ Unset(n), << >>)

RECURSIVE NewNull(_, _)
NewNullList(t, n)          == Node("list", OffsetsPart(Zeros(n + 1)) @@ Unset(n), << NewEmpty(t.children[1]) >>)
NewNullMap(t, n)           == Node("map", OffsetsPart(Zeros(n + 1)) @@ Unset(n), << NewEmpty(t.children[1]) >>)
NewNullFixedSizeList(t, n) == Node("fixed", Unset(n), << NewNull(t.children[1], n * Size) >>)
NewNullStruct(t, n) ==
  Node("struct", Unset(n), [c \in DOMAIN t.children |-> NewNull(t.children[c], n)])
NewNullDictionary(t, n) ==
  Node("dictionary", NoParts, << NewNullPrimitive(n), NewNull(t.children[2], 1) >>)
NewNullUnion(t, n) ==
  Node(t.kind,
       TypesPart(Zeros(n)) @@ (IF t.kind = "dense" THEN OffsetsPart([i \in 1 .. n |-> i - 1]) ELSE NoParts),
       [c \in DOMAIN t.children |-> NewNull(t.children[c], n)])

NewNull(t, n) ==
  CASE t.kind = "primitive"  -> NewNullPrimitive(n)
    [] t.kind = "boolean"    -> NewNullBoolean(n)
    [] t.kind = "bytes"      -> NewNullFixedSizeBinary(n)
    [] t.kind = "utf8"       -> NewNullUtf8(n)
    [] t.kind = "binary"     -> NewNullBinary(n)
    [] t.kind = "list"       -> NewNullList(t, n)
    [] t.kind = "map"        -> NewNullMap(t, n)
    [] t.kind = "fixed"      -> NewNullFixedSizeList(t, n)
    [] t.kind = "struct"     -> NewNullStruct(t, n)
    [] t.kind = "dictionary" -> NewNullDictionary(t, n)
    [] IsUnion(t)            -> NewNullUnion(t, n)
=============================================================================

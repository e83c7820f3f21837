------------------------------ MODULE MCArrays ------------------------------
(***************************************************************************)
(* Instances of bitmaps, of the arrays built item by item, of the          *)
(* growables, of the iterator over the runs of a bitmap and of the arrays  *)
(* that share buffers for TLC: a behaviour is one of them, the others      *)
(* being over.                                                             *)
(***************************************************************************)
EXTENDS Bitmaps, MutableArrays, Growables, SlicesIterator, SharedArrays, TLC

CONSTANTS s1, s2

\* A word that no shift maps to itself, byte by byte.
OneWord == LET word == << TRUE, FALSE, FALSE, TRUE, TRUE, FALSE >>
           IN {Take(word, W * n) : n \in 0 .. 3}

\* Nothing: every byte is one of the program's own.
NoBytes == {<< >>}

Symmetry == Permutations(Slots)

\* Nothing, and two of the size of a fixed-size item.
SomeStrings == {<< >>, << 1, 2 >>, << 2, 1 >>}
-----------------------------------------------------------------------------
(* What growables are made of: arrays of two and three rows, with nulls, with a *)
(* validity but without nulls, and without a validity; and slices of arrays,    *)
(* whose offsets start where the slice does.                                    *)

LeafOf(k, values, os, bits) == [kind |-> k, values |-> values, offsets |-> os, validity |-> bits]
ArrayOf(k, parts, os, bits, types) ==
  [kind |-> k, leaves |-> parts, offsets |-> os, validity |-> bits, types |-> types]
Alone(leaf) == ArrayOf(leaf.kind, << leaf >>, << >>, NoValidity, << >>)

NullSecond == << TRUE, FALSE >>
AllValid == << TRUE, TRUE >>
Validities == {NoValidity, NullSecond, AllValid}

Numbers(bits) == LeafOf("primitive", << 0, 1 >>, << >>, bits)
Numbers4(bits) == LeafOf("primitive", << 1, 0, 0, 1 >>, << >>, bits)
Texts(bits) == LeafOf("utf8", << 7, 1, 2 >>, << 1, 2, 3 >>, bits)
Fixeds(bits) == LeafOf("bytes", << 1, 2, 2, 1 >>, << >>, bits)

\* A list whose null row has values; one of a slice.
ListOf(bits) == ArrayOf("list", << LeafOf("utf8", << 1, 2 >>, << 0, 1, 2 >>, NullSecond) >>, << 0, 1, 2 >>, bits, << >>)
ListSliced == ArrayOf("list", << Texts(NoValidity) >>, << 1, 1, 2 >>, NoValidity, << >>)
FixedOf(bits) == ArrayOf("fixed", << Numbers4(<< TRUE, TRUE, FALSE, TRUE >>) >>, << >>, bits, << >>)
FixedWhole == ArrayOf("fixed", << Numbers4(NoValidity) >>, << >>, NoValidity, << >>)
StructOf(bits, own) == ArrayOf("struct", << Numbers(bits), Texts(NoValidity) >>, << >>, own, << >>)
SparseOf(bits) == ArrayOf("sparse", << Numbers(bits), Texts(NoValidity) >>, << >>, NoValidity, << 0, 1 >>)
DenseOf(bits) == ArrayOf("dense", << Numbers(bits), LeafOf("utf8", << 1 >>, << 0, 1 >>, NoValidity) >>,
                         << 0, 1, 0 >>, NoValidity, << 0, 0, 1 >>)
\* Two values, or one; keys of nulls are 0.
DictionaryOf(bits) ==
  ArrayOf("dictionary", << LeafOf("primitive", << 1, 0 >>, << >>, bits), LeafOf("utf8", << 1 >>, << 0, 0, 1 >>, NoValidity) >>,
          << >>, NoValidity, << >>)
DictionaryOfOne(bits) ==
  ArrayOf("dictionary", << LeafOf("primitive", << 0, 0 >>, << >>, bits), LeafOf("utf8", << 1 >>, << 0, 1 >>, NoValidity) >>,
          << >>, NoValidity, << >>)

Pairs(S) == S \X S

GrowableSources ==
  UNION {Pairs(S) : S \in {
    {Alone(Numbers(bits)) : bits \in Validities},
    {Alone([Numbers(bits) EXCEPT !.kind = "boolean"]) : bits \in {NoValidity, NullSecond}},
    {Alone(Fixeds(bits)) : bits \in {NoValidity, NullSecond}},
    {Alone(Texts(bits)) : bits \in Validities},
    {ListOf(NullSecond), ListOf(AllValid), ListSliced},
    {FixedOf(NullSecond), FixedWhole},
    {StructOf(NullSecond, NoValidity), StructOf(NoValidity, NullSecond), StructOf(AllValid, AllValid)},
    {SparseOf(NoValidity), SparseOf(NullSecond)},
    {DenseOf(NoValidity), DenseOf(NullSecond)},
    {DictionaryOfOne(NoValidity), DictionaryOfOne(NullSecond), DictionaryOf(NullSecond)}}}
-----------------------------------------------------------------------------
(* What arrays that share buffers start from: two rows of each kind, the second or *)
(* the first null; the nulls and the empty arrays of types that hold every kind.   *)

PrimitiveOf(values, bits) == Node("primitive", ItemsPart(values) @@ bits, << >>)
BooleanOf(bits) == Node("boolean", ItemsPart(<< TRUE, FALSE >>) @@ bits, << >>)
\* The last of three bytes is behind the last offset, or the first before the first text.
TextsOf(k, bytes, skip, bits) ==
  Node(k, OffsetsPart(<< 0, 1, 2 >>) @@ bits @@ ("values" :> [vector |-> 1, items |-> bytes, from |-> skip]), << >>)
SecondNull == BitsPart(<< TRUE, FALSE >>)
FirstNull == BitsPart(<< FALSE, TRUE >>)

TypeOf(k, children) == [kind |-> k, children |-> children]
LeafType(k) == TypeOf(k, << >>)
PairType == TypeOf("struct", << LeafType("primitive"), LeafType("boolean") >>)
NestedType(k) ==
  TypeOf("struct", << TypeOf("list", << LeafType("utf8") >>), TypeOf("fixed", << LeafType("bytes") >>),
     TypeOf("dictionary", << LeafType("primitive"), LeafType("binary") >>),
     TypeOf("map", << PairType >>), TypeOf(k, << LeafType("primitive"), LeafType("boolean") >>) >>)

Made(a) == [array |-> a, nulls |-> FALSE]
SharedStarts == <<
  Made(PrimitiveOf(<< 0, 1 >>, SecondNull)),
  Made(PrimitiveOf(<< 0, 1 >>, NoParts)),
  Made(BooleanOf(FirstNull)),
  Made(TextsOf("utf8", << 1, 2 >>, 0, SecondNull)),
  Made(TextsOf("utf8", << 1, 2, 3 >>, 0, NoParts)),
  Made(TextsOf("utf8", << 1, 2, 3 >>, 1, FirstNull)),
  Made(TextsOf("binary", << 1, 2 >>, 0, SecondNull)),
  Made(Node("bytes", ItemsPart(<< 1, 2, 2, 1 >>) @@ SecondNull, << >>)),
  Made(Node("list", OffsetsPart(<< 0, 1, 2 >>) @@ FirstNull, << PrimitiveOf(<< 1, 0 >>, SecondNull) >>)),
  Made(Node("map", OffsetsPart(<< 0, 1, 2 >>) @@ FirstNull,
     << Node("struct", NoParts, << PrimitiveOf(<< 1, 0 >>, NoParts), BooleanOf(SecondNull) >>) >>)),
  Made(Node("fixed", SecondNull, << PrimitiveOf(<< 1, 0, 1, 1 >>, NoParts) >>)),
  Made(Node("struct", FirstNull, << PrimitiveOf(<< 1, 0 >>, SecondNull), TextsOf("utf8", << 1, 2 >>, 0, NoParts) >>)),
  Made(Node("dictionary", NoParts, << PrimitiveOf(<< 1, 0 >>, SecondNull), TextsOf("utf8", << 1, 2 >>, 0, NoParts) >>)),
  Made(Node("sparse", TypesPart(<< 0, 1 >>), << PrimitiveOf(<< 1, 0 >>, SecondNull), BooleanOf(FirstNull) >>)),
  Made(Node("dense", TypesPart(<< 1, 0 >>) @@ OffsetsPart(<< 0, 1 >>), << PrimitiveOf(<< 1, 0 >>, NoParts), BooleanOf(FirstNull) >>)),
  [array |-> NewNull(LeafType("boolean"), 2), nulls |-> TRUE],
  [array |-> NewNull(LeafType("utf8"), 2), nulls |-> TRUE],
  [array |-> NewNull(NestedType("dense"), 2), nulls |-> TRUE],
  [array |-> NewNull(NestedType("sparse"), 2), nulls |-> TRUE],
  Made(NewEmpty(NestedType("dense"))),
  Made(NewEmpty(NestedType("sparse")))
>>
-----------------------------------------------------------------------------
NoBitmaps ==
  /\ slots = [s \in Slots |-> None]
  /\ memory = [r \in Regions |-> Free]
  /\ steps = MaxSteps

ArrayBuilt ==
  /\ kind = "primitive" /\ leaves = LeavesOf(kind)
  /\ offsets = << 0 >> /\ validity = NoValidity /\ known = << >>
  /\ building = "frozen" /\ items = << >> /\ popped = << >> /\ torn = FALSE

NothingGrown ==
  /\ sources = << Alone(Numbers(NoValidity)) >> /\ given = FALSE
  /\ grown = Alone(Numbers(NoValidity)) /\ growing = "boxed"
  /\ rows = Rows(Alone(Numbers(NoValidity))) /\ nulled = FALSE

\* A bitmap of up to three bytes, of a length that ends in its last byte: the bits
\* before the offset and behind the length are any.
SomeBitmaps ==
  [bytes : UNION {[1 .. n -> [1 .. ByteBits -> BOOLEAN]] : n \in 0 .. 3}, offset : 0 .. ByteBits - 1, length : 0 .. 3 * ByteBits]

EndsInLastByte(b) == Len(b.bytes) = (b.offset + b.length + ByteBits - 1) \div ByteBits

NoSlices ==
  bitmap = [bytes |-> << >>, offset |-> 0, length |-> 0] /\ SlicesInit

NothingShared ==
  /\ heap = << >> /\ held = [s \in Handles |-> Nothing] /\ owners = << >>
  /\ shown = [s \in Handles |-> NothingShown] /\ panic = NoPanic /\ turns = MaxTurns

ArraysInit ==
  \/ Init /\ ArrayBuilt /\ NothingGrown /\ NoSlices /\ NothingShared
  \/ NoBitmaps /\ MutableArraysInit /\ NothingGrown /\ NoSlices /\ NothingShared
  \/ NoBitmaps /\ ArrayBuilt /\ GrowablesInit /\ NoSlices /\ NothingShared
  \/ /\ NoBitmaps /\ ArrayBuilt /\ NothingGrown /\ NothingShared
     /\ bitmap \in SomeBitmaps /\ EndsInLastByte(bitmap) /\ SlicesInit
  \/ NoBitmaps /\ ArrayBuilt /\ NothingGrown /\ NoSlices /\ SharedInit

ArraysNext ==
  \/ Next /\ UNCHANGED << mvars, gvars, slicesvars, sharedvars >>
  \/ MutableArraysNext /\ UNCHANGED << vars, gvars, slicesvars, sharedvars >>
  \/ GrowablesNext /\ UNCHANGED << vars, mvars, slicesvars, sharedvars >>
  \/ Turn /\ UNCHANGED << vars, mvars, gvars, sharedvars >>
  \/ SharedNext /\ UNCHANGED << vars, mvars, gvars, slicesvars >>

\* The behaviours in which only bitmaps are built.
BitmapsSpec ==
  /\ Init /\ ArrayBuilt /\ NothingGrown /\ NoSlices /\ NothingShared
  /\ [][Next /\ UNCHANGED << mvars, gvars, slicesvars, sharedvars >>]_<< vars, mvars, gvars, slicesvars, sharedvars >>

ArraysSpec == ArraysInit /\ [][ArraysNext]_<< vars, mvars, gvars, slicesvars, sharedvars >>
-----------------------------------------------------------------------------
\* What the parts of a bitmap, of an array being built and of a growable are to each
\* other: bytes to bits, validities and offsets to values, keys to the map.
ArraysInv == BitmapsInv /\ MutableArraysInv /\ GrowablesInv
=============================================================================

----------------------------- MODULE CInterface -----------------------------
(***************************************************************************)
(* The C data interface (src/src/ffi): an array exported as an ArrowArray, *)
(* which has one offset for all its buffers and gives the regions from     *)
(* their start; and an array imported from one, whose buffers keep the     *)
(* ArrowArray.                                                             *)
(***************************************************************************)
EXTENDS ArrayViews

LOCAL INSTANCE SequencesExt

(* offset of ToFfi: where the rows start in the buffers of each kind. *)

OffsetPrimitive(a)       == a.parts.values.offset
OffsetBoolean(a)         == a.parts.values.offset
OffsetFixedSizeBinary(a) == a.parts.values.offset \div Size
OffsetUtf8(a)            == a.parts.offsets.offset
OffsetBinary(a)          == a.parts.offsets.offset
OffsetList(a)            == a.parts.offsets.offset
OffsetMap(a)             == a.parts.offsets.offset
OffsetFixedSizeList(a)   == IF Has(a, "validity") THEN a.parts.validity.offset ELSE 0
OffsetStruct(a)          == IF Has(a, "validity") THEN a.parts.validity.offset ELSE 0
OffsetDictionary(a)      == OffsetPrimitive(a.children[1])
OffsetUnion(a)           == a.parts.types.offset

OffsetOf(a) ==
  CASE a.kind = "primitive"  -> OffsetPrimitive(a)
    [] a.kind = "boolean"    -> OffsetBoolean(a)
    [] a.kind = "bytes"      -> OffsetFixedSizeBinary(a)
    [] a.kind = "utf8"       -> OffsetUtf8(a)
    [] a.kind = "binary"     -> OffsetBinary(a)
    [] a.kind = "list"       -> OffsetList(a)
    [] a.kind = "map"        -> OffsetMap(a)
    [] a.kind = "fixed"      -> OffsetFixedSizeList(a)
    [] a.kind = "struct"     -> OffsetStruct(a)
    [] a.kind = "dictionary" -> OffsetDictionary(a)
    [] IsUnion(a)            -> OffsetUnion(a)

\* Its offset is None if the bits start elsewhere.
IsAligned(a) == HasBits(a) => ValidityPart(a).validity.offset = OffsetOf(a)

\* ArrowArray::new unwraps the offset of every array of the tree; only the top is aligned.
RECURSIVE CanBeExported(_)
CanBeExported(a) == IsAligned(a) /\ \A c \in DOMAIN a.children : CanBeExported(a.children[c])

\* bitmap::align: a copy of the bits behind as many others.
BitsAt(a, o) == Repeat(FALSE, o) \o Data(ValidityPart(a).validity)
-----------------------------------------------------------------------------
(* The parts of an import.  A buffer starts at the region, not at the offset of the *)
(* buffer that was exported, and is then sliced.                                    *)

Foreign(b, o, n, id) == [region |-> b.region, offset |-> o, length |-> n, owner |-> id]

CreateBuffer(a, p, id)  == p :> Foreign(a.parts[p], OffsetOf(a), LengthOf(a), id)
CreateOffsets(a, id)    == "offsets" :> Foreign(a.parts.offsets, OffsetOf(a), LengthOf(a) + 1, id)
CreateBytes(a, id)      == "values" :> Foreign(a.parts.values, OffsetOf(a) * Size, LengthOf(a) * Size, id)

\* As long as the last offset says, from the start.
CreateText(a, id) ==
  "values" :> Foreign(a.parts.values, 0, heap[a.parts.offsets.region][OffsetOf(a) + LengthOf(a) + 1], id)

\* create_bitmap, if there are nulls.
NullsOf(a) == HasBits(a) /\ FALSE \in Range(Data(ValidityPart(a).validity))
CreateValidity(a, id) ==
  IF NullsOf(a) THEN "validity" :> Foreign(ValidityPart(a).validity, OffsetOf(a), LengthOf(a), id)
  ELSE << >>

(* try_from_ffi of each kind. *)

ImportPrimitive(a, id) == Node("primitive", CreateBuffer(a, "values", id) @@ CreateValidity(a, id), << >>)
ImportBoolean(a, id)   == Node("boolean", CreateBuffer(a, "values", id) @@ CreateValidity(a, id), << >>)
ImportFixedSizeBinary(a, id) == Node("bytes", CreateBytes(a, id) @@ CreateValidity(a, id), << >>)
ImportUtf8(a, id) ==
  Node("utf8", CreateOffsets(a, id) @@ CreateText(a, id) @@ CreateValidity(a, id), << >>)
ImportBinary(a, id) ==
  Node("binary", CreateOffsets(a, id) @@ CreateText(a, id) @@ CreateValidity(a, id), << >>)

RECURSIVE TryFrom(_, _)
ImportList(a, id) ==
  Node("list", CreateOffsets(a, id) @@ CreateValidity(a, id), << TryFrom(a.children[1], id) >>)
ImportMap(a, id) ==
  Node("map", CreateOffsets(a, id) @@ CreateValidity(a, id), << TryFrom(a.children[1], id) >>)
ImportFixedSizeList(a, id) == Node("fixed", CreateValidity(a, id), << TryFrom(a.children[1], id) >>)
ImportStruct(a, id) ==
  Node("struct", CreateValidity(a, id), [c \in DOMAIN a.children |-> TryFrom(a.children[c], id)])
ImportDictionary(a, id) ==
  Node("dictionary", << >>, << ImportPrimitive(a.children[1], id), TryFrom(a.children[2], id) >>)
ImportUnion(a, id) ==
  Node(a.kind,
       CreateBuffer(a, "types", id) @@ (IF a.kind = "dense" THEN CreateBuffer(a, "offsets", id) ELSE << >>),
       [c \in DOMAIN a.children |-> TryFrom(a.children[c], id)])

TryFrom(a, id) ==
  CASE a.kind = "primitive"  -> ImportPrimitive(a, id)
    [] a.kind = "boolean"    -> ImportBoolean(a, id)
    [] a.kind = "bytes"      -> ImportFixedSizeBinary(a, id)
    [] a.kind = "utf8"       -> ImportUtf8(a, id)
    [] a.kind = "binary"     -> ImportBinary(a, id)
    [] a.kind = "list"       -> ImportList(a, id)
    [] a.kind = "map"        -> ImportMap(a, id)
    [] a.kind = "fixed"      -> ImportFixedSizeList(a, id)
    [] a.kind = "struct"     -> ImportStruct(a, id)
    [] a.kind = "dictionary" -> ImportDictionary(a, id)
    [] IsUnion(a)            -> ImportUnion(a, id)

\* Importing a union slices the types, which are sliced, once more: past their end.
RECURSIVE CanBeImported(_)
CanBeImported(a) ==
  /\ IsUnion(a) => OffsetOf(a) = 0
  /\ \A c \in DOMAIN a.children : CanBeImported(a.children[c])

\* Texts whose bytes do not start at their region are read from its start.
RECURSIVE IsMisread(_)
IsMisread(a) ==
  \/ IsText(a) /\ a.parts.values.offset > 0
  \/ \E c \in DOMAIN a.children : IsMisread(a.children[c])
=============================================================================

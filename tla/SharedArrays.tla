---------------------------- MODULE SharedArrays ----------------------------
(***************************************************************************)
(* A program with a few arrays that clone, slice, change, export and       *)
(* import each other's buffers.  What is written through one of them is    *)
(* not to be seen in another.  The calls that write in place when they     *)
(* find that nobody else holds a buffer, and otherwise to a new one, are   *)
(* into_mut (array/primitive, boolean, utf8), unary and binary             *)
(* (compute/arity_assign.rs) and apply_values_mut.                         *)
(***************************************************************************)
EXTENDS CInterface

LOCAL INSTANCE FiniteSets
LOCAL INSTANCE SequencesExt

CONSTANT Handles  \* the variables of the program that arrays are in

VARIABLES
  held,   \* handle -> [state, array]: an array, a mutable array, an ArrowArray, or none
  owners  \* the ArrowArrays that imported buffers keep

Live == {s \in Handles : held[s].state # "none"}

Total(f(_), S) == FoldLeft(LAMBDA sum, x : sum + f(x), 0, SetToSeq(S))

\* How many buffers of an array, and of all of them, hold a region: an Arc's count.
RECURSIVE CountIn(_, _)
CountIn(a, r) ==
  Cardinality({p \in DOMAIN a.parts : a.parts[p].region = r /\ a.parts[p].owner = NoOwner})
    + FoldLeft(LAMBDA sum, child : sum + CountIn(child, r), 0, a.children)
StrongCount(r) ==
  Total(LAMBDA s : CountIn(held[s].array, r), Live) + Total(LAMBDA id : CountIn(owners[id], r), DOMAIN owners)

GetMutUncounted(b) == b.offset = 0 /\ b.owner = NoOwner  \* mutant: who else holds it is not asked

\* Buffer::get_mut and Bitmap::into_mut.  The length is not looked at: what get_mut hands
\* out is the whole vector, a MutableBitmap keeps the bitmap's length.
GetMut(b) == b.offset = 0 /\ b.owner = NoOwner /\ StrongCount(b.region) = 1
BitmapIntoMut(b) == b.offset = 0 /\ StrongCount(b.region) = 1 /\ b.owner = NoOwner
WholeVector(b)  == [b EXCEPT !.length = Len(heap[b.region])]

BitsAreOurs(a) == Has(a, "validity") => BitmapIntoMut(a.parts.validity)
-----------------------------------------------------------------------------
(* into_mut: the array itself (left) or a mutable one (right). *)

Left(a)  == [side |-> "left", array |-> a]
Right(a) == [side |-> "right", array |-> a]
Panics   == [side |-> "panic"]

IntoMutPrimitive(a) ==
  LET whole == [a EXCEPT !.parts.values = WholeVector(@)]
  IN  IF ~(BitsAreOurs(a) /\ GetMut(a.parts.values)) THEN Left(a)
      ELSE IF BitsFit(whole) THEN Right(whole) ELSE Panics

IntoMutBoolean(a) == IF BitsAreOurs(a) /\ BitmapIntoMut(a.parts.values) THEN Right(a) ELSE Left(a)

\* The vectors are taken whole even if only one can be; the other is then wrapped again.
IntoMutUtf8(a) ==
  LET ours(p) == BitsAreOurs(a) /\ GetMut(a.parts[p])
      whole == [a EXCEPT !.parts.values = IF ours("values") THEN WholeVector(@) ELSE @,
                         !.parts.offsets = IF ours("offsets") THEN WholeVector(@) ELSE @]
      last == Last(Data(whole.parts.offsets))
  IN  IF ours("values") /\ ours("offsets")
      THEN IF last = whole.parts.values.length /\ BitsFit(whole) THEN Right(whole) ELSE Panics
      ELSE IF last <= whole.parts.values.length /\ BitsFit(whole) THEN Left(whole) ELSE Panics

HasIntoMut(a) == a.kind \in {"primitive", "boolean", "utf8"}
IntoMutOf(a) ==
  CASE a.kind = "primitive" -> IntoMutPrimitive(a)
    [] a.kind = "boolean"   -> IntoMutBoolean(a)
    [] a.kind = "utf8"      -> IntoMutUtf8(a)

\* An array whose vectors go on behind its rows: slice(0, n) of a longer one.  A text may
\* also have bytes behind the last offset.
CutShort(a) ==
  \E p \in DOMAIN a.parts \ {"validity"} : WholeVector(a.parts[p]).length > a.parts[p].length
TrailingBytes(a) == a.kind = "utf8" /\ Last(Data(a.parts.offsets)) < a.parts.values.length
-----------------------------------------------------------------------------
(* Calls that change an array: the array, and the memory with what they wrote. *)

Changed(a, h) == [array |-> a, heap |-> h]

Fresh(h) == CHOOSE r \in {<< 0, n >> : n \in 0 .. Cardinality(DOMAIN h)} :
              /\ r \notin DOMAIN h
              /\ \A n \in 0 .. r[2] - 1 : << 0, n >> \in DOMAIN h

\* A part replaced by a new vector.
WithPart(a, p, b) == [a EXCEPT !.parts = (p :> b) @@ @]
InNewVector(a, p, h, s) ==
  Changed(WithPart(a, p, Buffer(Fresh(h), 0, Len(s))), (Fresh(h) :> s) @@ h)

\* The first items of a vector replaced.
Overwritten(h, r, s) == [h EXCEPT ![r] = s \o SubSeq(@, Len(s) + 1, Len(@))]

Flip(x) == 1 - x
Plus(x, y) == (x + y) % 2
MappedItems(s) == [i \in DOMAIN s |-> Flip(s[i])]

\* arity_assign::unary: in place also behind the rows of the array.
Unary(a) ==
  LET b == a.parts.values
  IN  IF GetMut(b) THEN Changed(a, [heap EXCEPT ![b.region] = MappedItems(@)])
      ELSE InNewVector(a, "values", heap, MappedItems(Data(b)))

\* arity_assign::binary, the validity first.
And(l, r) == [i \in DOMAIN l |-> l[i] /\ r[i]]
BinaryValidity(a, rhs) ==
  IF ~Has(rhs, "validity") THEN Changed(a, heap)
  ELSE IF ~Has(a, "validity") THEN Changed(WithPart(a, "validity", rhs.parts.validity), heap)
  ELSE LET b == a.parts.validity
           both == And(Data(b), Data(rhs.parts.validity))
       IN  IF BitmapIntoMut(b) THEN Changed(a, Overwritten(heap, b.region, both))
           ELSE InNewVector(a, "validity", heap, both)

BinaryItems(a, rhs) ==
  LET l == Data(a.parts.values) r == Data(rhs.parts.values) IN [i \in DOMAIN l |-> Plus(l[i], r[i])]
Binary(a, rhs) ==
  LET masked == BinaryValidity(a, rhs)
      b == a.parts.values
  IN  IF GetMut(b) THEN Changed(masked.array, Overwritten(masked.heap, b.region, BinaryItems(a, rhs)))
      ELSE InNewVector(masked.array, "values", masked.heap, BinaryItems(a, rhs))

\* apply_values_mut of a function that turns every bit; Bitmap::make_mut.
Turned(s) == [i \in DOMAIN s |-> ~s[i]]
ApplyValuesMut(a) ==
  LET b == a.parts.values
  IN  IF BitmapIntoMut(b) THEN Changed(a, Overwritten(heap, b.region, Turned(Data(b))))
      ELSE InNewVector(a, "values", heap, Turned(Data(b)))

\* set of a mutable array: a null makes a validity if there is none.
DefaultOf(a) == IF a.kind = "boolean" THEN FALSE ELSE 0
WithItemSet(a, i, x) ==
  LET stored == [heap EXCEPT ![a.parts.values.region][i] = IF x = Null THEN DefaultOf(a) ELSE x]
      masked == IF x = Null /\ ~Has(a, "validity")
                THEN InNewVector(a, "validity", stored, Repeat(TRUE, LengthOf(a)))
                ELSE Changed(a, stored)
  IN  IF ~Has(masked.array, "validity") THEN masked
      ELSE Changed(masked.array, [masked.heap EXCEPT ![masked.array.parts.validity.region][i] = x # Null])

\* From a mutable array: a validity without nulls is dropped, but for booleans.
WithoutPart(a, p) == [a EXCEPT !.parts = [q \in DOMAIN @ \ {p} |-> @[q]]]
Frozen(a) ==
  IF a.kind # "boolean" /\ Has(a, "validity") /\ FALSE \notin Range(Data(a.parts.validity))
  THEN WithoutPart(a, "validity") ELSE a

\* set_validity, with_validity: the keys' of a dictionary.
SetBits(a, b) == IF b = NoValidity THEN WithoutPart(a, "validity") ELSE WithPart(a, "validity", b)
SetValidityOf(a, b) ==
  IF a.kind = "dictionary" THEN [a EXCEPT !.children[1] = SetBits(@, b)] ELSE SetBits(a, b)
-----------------------------------------------------------------------------
(* The program: its handles and the arrays in them. *)

CONSTANTS
  SomeArrays,  \* a sequence of [array, nulls]: an array, and whether it is new_null's
  MaxTurns     \* bound: the calls of a behaviour

ASSUME SharedArraysAssumption == MaxTurns \in Nat /\ Len(SomeArrays) > 0

VARIABLES
  shown,  \* handle -> what the rows are, and which of them is valid, as the program was told
  panic,  \* the call that panicked, and its array
  turns
sharedvars == << heap, held, owners, shown, panic, turns >>

Nothing == [state |-> "none"]
InHand(st, a) == [state |-> st, array |-> a]
NothingShown == [inner |-> << >>, bits |-> << >>]
NoPanic == [call |-> "none"]

ShownBy(a) == [inner |-> [i \in 1 .. LengthOf(a) |-> InRow(a, i)], bits |-> [i \in 1 .. LengthOf(a) |-> IsValidAt(a, i)]]
ShownRows(s) == [i \in DOMAIN shown[s].inner |-> IF shown[s].bits[i] THEN shown[s].inner[i] ELSE Null]
-----------------------------------------------------------------------------
(* A buffer that is dropped gives up its part of the region or of the ArrowArray. *)

RECURSIVE RegionsIn(_)
RegionsIn(a) ==
  {a.parts[p].region : p \in {q \in DOMAIN a.parts : a.parts[q].owner = NoOwner}}
    \cup UNION {RegionsIn(a.children[c]) : c \in DOMAIN a.children}
RECURSIVE OwnersIn(_)
OwnersIn(a) ==
  ({a.parts[p].owner : p \in DOMAIN a.parts} \ {NoOwner})
    \cup UNION {OwnersIn(a.children[c]) : c \in DOMAIN a.children}

\* The ArrowArrays that are kept, by buffers or by arrays exported in others.
RECURSIVE Kept(_, _)
Kept(ids, all) ==
  LET more == ids \cup UNION {OwnersIn(all[id]) : id \in ids} IN IF more = ids THEN ids ELSE Kept(more, all)

Restricted(f, S) == [x \in (DOMAIN f) \cap S |-> f[x]]

\* The program after a call: its arrays, and the memory without what was given up.
Becomes(h, arrays, exported) ==
  LET alive == {s \in Handles : arrays[s].state # "none"}
      kept == Restricted(exported, Kept(UNION {OwnersIn(arrays[s].array) : s \in alive}, exported))
  IN  /\ held' = arrays
      /\ owners' = kept
      /\ heap' = Restricted(h, UNION ({RegionsIn(arrays[s].array) : s \in alive}
                                        \cup {RegionsIn(kept[id]) : id \in DOMAIN kept}))
      /\ turns' = turns + 1

Panicking(call, s) ==
  /\ panic' = [call |-> call, array |-> held[s].array]
  /\ turns' = turns + 1
  /\ UNCHANGED << heap, held, owners, shown >>

\* A call that leaves one array behind in s, and the memory h.
Leaves(s, st, a, h) == Becomes(h, [held EXCEPT ![s] = InHand(st, a)], owners) /\ UNCHANGED panic
Tells(s, inner, bits) == shown' = [shown EXCEPT ![s] = [inner |-> inner, bits |-> bits]]

May(s, st) == turns < MaxTurns /\ panic = NoPanic /\ held[s].state = st
Array(s) == held[s].array
-----------------------------------------------------------------------------
SharedInit ==
  \E k \in DOMAIN SomeArrays :
    LET a == Placed(SomeArrays[k].array, 1)
        s == CHOOSE t \in Handles : TRUE
    IN  /\ heap = Vectors(SomeArrays[k].array, 1)
        /\ held = [t \in Handles |-> IF t = s THEN InHand("array", a) ELSE Nothing]
        /\ owners = << >>
        /\ shown = [t \in Handles |->
             IF t # s THEN NothingShown
             ELSE IF SomeArrays[k].nulls THEN [ShownBy(a) EXCEPT !.bits = Repeat(FALSE, LengthOf(a))]
             ELSE ShownBy(a)]
        /\ panic = NoPanic /\ turns = 0

CloneArray(s, t) ==
  /\ May(s, "array") /\ held[t].state = "none"
  /\ Leaves(t, "array", Array(s), heap)
  /\ shown' = [shown EXCEPT ![t] = shown[s]]

SliceArray(s, o, n) ==
  /\ May(s, "array") /\ o + n <= LengthOf(Array(s))
  /\ Leaves(s, "array", SliceOf(Array(s), o, n), heap)
  /\ Tells(s, SubSeq(shown[s].inner, o + 1, o + n), SubSeq(shown[s].bits, o + 1, o + n))

DropArray(s) ==
  /\ turns < MaxTurns /\ panic = NoPanic /\ held[s].state # "none"
  /\ Becomes(heap, [held EXCEPT ![s] = Nothing], owners)
  /\ shown' = [shown EXCEPT ![s] = NothingShown]
  /\ UNCHANGED panic

\* with_validity: of none, of the bitmap of another array, of a new one.
SetValidity(s, bits) ==
  /\ May(s, "array") /\ ~IsUnion(Array(s))
  /\ \/ /\ bits = NoValidity
        /\ Leaves(s, "array", SetValidityOf(Array(s), NoValidity), heap)
        /\ Tells(s, shown[s].inner, Repeat(TRUE, LengthOf(Array(s))))
     \/ /\ bits # NoValidity /\ Len(bits) = LengthOf(Array(s))
        /\ Leaves(s, "array", SetValidityOf(Array(s), Buffer(Fresh(heap), 0, Len(bits))), (Fresh(heap) :> bits) @@ heap)
        /\ Tells(s, shown[s].inner, bits)

ShareValidity(s, t) ==
  /\ s # t /\ May(s, "array") /\ May(t, "array") /\ ~IsUnion(Array(s)) /\ HasBits(Array(t))
  /\ LengthOf(Array(s)) = LengthOf(Array(t))
  /\ Leaves(s, "array", SetValidityOf(Array(s), ValidityPart(Array(t)).validity), heap)
  /\ Tells(s, shown[s].inner, shown[t].bits)

\* set_values with the buffer of another array.
ShareValues(s, t) ==
  /\ s # t /\ May(s, "array") /\ May(t, "array")
  /\ Array(s).kind \in {"primitive", "boolean"} /\ Array(t).kind = Array(s).kind
  /\ LengthOf(Array(s)) = LengthOf(Array(t))
  /\ Leaves(s, "array", WithPart(Array(s), "values", Array(t).parts.values), heap)
  /\ Tells(s, shown[t].inner, shown[s].bits)

UnaryAssign(s) ==
  /\ May(s, "array") /\ Array(s).kind = "primitive"
  /\ LET made == Unary(Array(s)) IN Leaves(s, "array", made.array, made.heap)
  /\ Tells(s, MappedItems(shown[s].inner), shown[s].bits)

BinaryAssign(s, t) ==
  /\ s # t /\ May(s, "array") /\ May(t, "array")
  /\ Array(s).kind = "primitive" /\ Array(t).kind = "primitive" /\ LengthOf(Array(s)) = LengthOf(Array(t))
  /\ LET made == Binary(Array(s), Array(t)) IN Leaves(s, "array", made.array, made.heap)
  /\ Tells(s, [i \in DOMAIN shown[s].inner |-> Plus(shown[s].inner[i], shown[t].inner[i])],
              And(shown[s].bits, shown[t].bits))

TurnValues(s) ==
  /\ May(s, "array") /\ Array(s).kind = "boolean"
  /\ LET made == ApplyValuesMut(Array(s)) IN Leaves(s, "array", made.array, made.heap)
  /\ Tells(s, Turned(shown[s].inner), shown[s].bits)

\* The rows that a slice cut off are there again: the first ones are what they were.
MakeMutable(s) ==
  /\ May(s, "array") /\ HasIntoMut(Array(s))
  /\ LET got == IntoMutOf(Array(s))
     IN  \/ got = Panics /\ Panicking("into_mut", s)
         \/ /\ got # Panics
            /\ Leaves(s, IF got.side = "left" THEN "array" ELSE "mutable", got.array, heap)
            /\ LET more == SubSeq(ShownBy(got.array).inner, Len(shown[s].inner) + 1, LengthOf(got.array))
               IN  Tells(s, shown[s].inner \o IF CutShort(Array(s)) THEN more ELSE << >>,
                         shown[s].bits \o IF CutShort(Array(s)) THEN [i \in DOMAIN more |-> TRUE] ELSE << >>)

SetMutableItem(s, i, x) ==
  /\ May(s, "mutable") /\ Array(s).kind \in {"primitive", "boolean"} /\ i \in 1 .. LengthOf(Array(s))
  /\ LET item == IF Array(s).kind = "boolean" /\ x # Null THEN TRUE ELSE x
         made == WithItemSet(Array(s), i, item)
     IN  /\ Leaves(s, "mutable", made.array, made.heap)
         /\ Tells(s, [shown[s].inner EXCEPT ![i] = IF item = Null THEN DefaultOf(Array(s)) ELSE item],
                     [shown[s].bits EXCEPT ![i] = item # Null])

FreezeMutable(s) ==
  /\ May(s, "mutable")
  /\ Leaves(s, "array", Frozen(Array(s)), heap)
  /\ UNCHANGED shown

\* A struct array of it.
Wrap(s) ==
  /\ May(s, "array") /\ Array(s).kind # "struct"
  /\ Leaves(s, "array", Node("struct", << >>, << Array(s) >>), heap)
  /\ LET rows == ShownRows(s)
     IN  Tells(s, [i \in DOMAIN rows |-> << rows[i] >>], Repeat(TRUE, Len(rows)))

\* export_array_to_c: the bits are aligned to the offset, those of the children are not.
Export(s) ==
  /\ May(s, "array")
  /\ LET a == Array(s)
         bits == BitsAt(a, OffsetOf(a))
         aligned == IF IsAligned(a) THEN a
                    ELSE SetValidityOf(a, Buffer(Fresh(heap), OffsetOf(a), LengthOf(a)))
     IN  \/ ~CanBeExported(aligned) /\ Panicking("export", s)
         \/ /\ CanBeExported(aligned)
            /\ Leaves(s, "exported", aligned, IF IsAligned(a) THEN heap ELSE (Fresh(heap) :> bits) @@ heap)
            /\ UNCHANGED shown

\* import_array_from_c: the ArrowArray is kept by the buffers made of it.
Import(s) ==
  /\ May(s, "exported")
  /\ LET id == CHOOSE n \in 1 .. Cardinality(DOMAIN owners) + 1 : n \notin DOMAIN owners
         a == TryFrom(Array(s), id)
     IN  \/ ~CanBeImported(Array(s)) /\ Panicking("import", s)
         \/ /\ CanBeImported(Array(s))
            /\ Becomes(heap, [held EXCEPT ![s] = InHand("array", a)], (id :> Array(s)) @@ owners)
            /\ shown' = IF IsMisread(Array(s)) THEN [shown EXCEPT ![s] = ShownBy(a)] ELSE shown
            /\ UNCHANGED panic

SharedNext ==
  \E s \in Handles :
    \/ DropArray(s) \/ UnaryAssign(s) \/ TurnValues(s) \/ MakeMutable(s) \/ FreezeMutable(s)
    \/ Wrap(s) \/ Export(s) \/ Import(s)
    \/ \E t \in Handles : CloneArray(s, t) \/ ShareValidity(s, t) \/ ShareValues(s, t) \/ BinaryAssign(s, t)
    \/ \E o, n \in 0 .. 2 : SliceArray(s, o, n)
    \/ \E bits \in {NoValidity, << TRUE, FALSE >>} : SetValidity(s, bits)
    \/ \E i \in 1 .. 2, x \in {Null, 1} : SetMutableItem(s, i, x)
-----------------------------------------------------------------------------
(* Whatever the others did, an array reads what was put into it, its constructor *)
(* would accept it, and its buffers lie in memory that somebody keeps.            *)

RECURSIVE LiesInMemory(_)
LiesInMemory(a) ==
  /\ \A p \in DOMAIN a.parts :
       LET b == a.parts[p]
       IN  /\ b.region \in DOMAIN heap /\ b.offset + b.length <= Len(heap[b.region])
           /\ b.owner # NoOwner => b.owner \in DOMAIN owners
  /\ \A c \in DOMAIN a.children : LiesInMemory(a.children[c])

\* Calls that take no array for another one panic for a reason: vectors longer than the
\* rows, a child whose bits start elsewhere, a union that was sliced.
RECURSIVE HasSlicedUnion(_)
HasSlicedUnion(a) ==
  \/ IsUnion(a) /\ a.offset > 0
  \/ \E c \in DOMAIN a.children : HasSlicedUnion(a.children[c])

PanicsHaveAReason ==
  /\ panic.call = "into_mut" => CutShort(panic.array) \/ TrailingBytes(panic.array)
  /\ panic.call = "export" => \E c \in DOMAIN panic.array.children : ~CanBeExported(panic.array.children[c])
  /\ panic.call = "import" => HasSlicedUnion(panic.array)

SharingIsUnseen ==
  /\ \A s \in Live :
       /\ LiesInMemory(held[s].array)
       /\ IsAccepted(held[s].array)
       /\ RowsOf(held[s].array) = ShownRows(s)
  /\ \A id \in DOMAIN owners : LiesInMemory(owners[id])
  /\ PanicsHaveAReason
=============================================================================
